---- MODULE Spec2Model ----
(***************************************************************************)
(* A model of the pyext2 driver: the device, the in-memory superblock and  *)
(* block group descriptor table, block and inode allocation, regular file  *)
(* append, the directory entry list, path lookup and the integrity check.  *)
(*                                                                         *)
(* The device image is a record of regions (bitmaps, inode table, data     *)
(* blocks, superblock and BGDT copies).  Bytes are naturals 0..255, byte   *)
(* strings and names are sequences of bytes.                               *)
(***************************************************************************)
EXTENDS Integers, Sequences, FiniteSets, TLC

VARIABLES
  image,      \* contents of the device (_DeviceFromFile._imageFile)
  sb,         \* the mounted _Superblock object (in memory)
  bgdt,       \* the mounted _BGDT object: sequence of _BGDTEntry (in memory)
  files,      \* the open file objects, by handle
  isMounted,  \* _DeviceFromFile.isMounted: the image file is open
  isValid,    \* Ext2Filesystem._isValid
  clock,      \* int(time())
  steps,      \* number of operations performed so far
  last,       \* the operation performed last, its arguments and its outcome
              \* (ret: a block id, an inode number or a number of messages)
  prev        \* the operation performed before that

vars == <<image, sb, bgdt, files, isMounted, isValid, clock, steps, last, prev>>

----------------------------------------------------------------------------
(* Bounds of the model *)

MaxSteps == 3
MaxFileSteps == 2
MaxClock == 1

----------------------------------------------------------------------------
(* Geometry of the image under test: fields of its superblock *)

numBlockGroups == 2
numBlocksPerGroup == 16
numInodesPerGroup == 8
firstDataBlockId == 1
firstInode == 3
blockSize == 64
revisionMajor == 1

Groups == 0 .. (numBlockGroups - 1)
NumInodes == numBlockGroups * numInodesPerGroup
BlockIds == firstDataBlockId .. (firstDataBlockId + numBlockGroups * numBlocksPerGroup - 1)

MaxU16 == 65535

----------------------------------------------------------------------------
(* Bytes and bit operations *)

Pow2(i) == 2 ^ i

\* (1 << i) & byte
TestBit(byte, i) == (byte \div Pow2(i)) % 2

\* byte | (1 << i)
OrBit(byte, i) == IF TestBit(byte, i) = 1 THEN byte ELSE byte + Pow2(i)

\* byte & ~(1 << i)
AndNotBit(byte, i) == IF TestBit(byte, i) = 1 THEN byte - Pow2(i) ELSE byte

RECURSIVE SeqSum(_)
SeqSum(s) == IF s = <<>> THEN 0 ELSE Head(s) + SeqSum(Tail(s))

ZeroBitsOfByte(byte) == Cardinality({i \in 0 .. 7 : TestBit(byte, i) = 0})

ZeroBits(bitmap) == SeqSum([k \in 1 .. Len(bitmap) |-> ZeroBitsOfByte(bitmap[k])])

\* index (1-based) of the first element of s satisfying Test, or 0
FirstIndex(s, Test(_)) ==
  IF \E k \in 1 .. Len(s) : Test(s[k])
  THEN CHOOSE k \in 1 .. Len(s) : Test(s[k]) /\ \A j \in 1 .. (k - 1) : ~Test(s[j])
  ELSE 0

\* lowest zero bit of a byte that is not 255
FirstZeroBit(byte) == CHOOSE i \in 0 .. 7 : TestBit(byte, i) = 0 /\ \A j \in 0 .. (i - 1) : TestBit(byte, j) = 1

----------------------------------------------------------------------------
(* struct.pack / struct.unpack of little-endian integers *)

LE16(v) == <<v % 256, (v \div 256) % 256>>

LE32(v) == <<v % 256, (v \div 256) % 256, (v \div 65536) % 256, (v \div 16777216) % 256>>

UnLE16(s, off) == s[off + 1] + 256 * s[off + 2]

UnLE32(s, off) == s[off + 1] + 256 * s[off + 2] + 65536 * s[off + 3] + 16777216 * s[off + 4]

\* s[from:] with a 0-based offset
Drop(s, from) == IF from >= Len(s) THEN <<>> ELSE SubSeq(s, from + 1, Len(s))

\* s[:n]
Take(s, n) == IF n >= Len(s) THEN s ELSE SubSeq(s, 1, n)

Zeros(n) == [k \in 1 .. n |-> 0]

----------------------------------------------------------------------------
(* The device: src/ext2/disk/device.py *)

\* Location, as a block id, of each region of group g in the image under test
\* (the first three fields of the group's descriptor).
blockBitmapLocation(g) == firstDataBlockId + g * numBlocksPerGroup + 2
inodeBitmapLocation(g) == firstDataBlockId + g * numBlocksPerGroup + 3
inodeTableLocation(g) == firstDataBlockId + g * numBlocksPerGroup + 4

\* The file holds img.size whole blocks: a read that starts in a block the file
\* holds is complete, a read that starts past the end of the file is empty.
OnDevice(img, bid) == bid < img.size

\* _DeviceFromFile.write: seeks and flushes; the write itself is commented out
DeviceWrite(img, position, byteString) == img

\* _DeviceFromFile.read of the first `size` bytes of a group's block bitmap
ReadBlockBitmap(img, g, size) ==
  IF OnDevice(img, blockBitmapLocation(g)) THEN Take(img.blockBitmap[g], size) ELSE <<>>

\* _DeviceFromFile.read of the first `size` bytes of a group's inode bitmap
ReadInodeBitmap(img, g, size) ==
  IF OnDevice(img, inodeBitmapLocation(g)) THEN Take(img.inodeBitmap[g], size) ELSE <<>>

\* _DeviceFromFile.read of `count` bytes at `offset` of block `bid`
ReadData(img, bid, offset, count) ==
  LET whole == IF bid \in DOMAIN img.data THEN img.data[bid] ELSE Zeros(blockSize)
  IN IF OnDevice(img, bid) THEN Take(Drop(whole, offset), count) ELSE <<>>

----------------------------------------------------------------------------
(* The superblock: src/ext2/disk/superblock.py *)

RECURSIVE PowersBelow(_, _, _)
PowersBelow(base, p, n) == IF p < n THEN {p} \cup PowersBelow(base, p * base, n) ELSE {}

\* _Superblock.__init__: the groups that hold a superblock and BGDT copy
CopyGroupIds(rev, n) ==
  IF rev = 0 THEN 0 .. (n - 1)
  ELSE IF n > 1 THEN {0, 1} \cup PowersBelow(3, 3, n) \cup PowersBelow(7, 7, n)
  ELSE {0}

copyLocations == CopyGroupIds(revisionMajor, numBlockGroups)

\* the setters keep the value in memory; nothing is written to the image
SetSbNumFreeBlocks(w, value) == [w EXCEPT !.sb.numFreeBlocks = value]

SetSbNumFreeInodes(w, value) == [w EXCEPT !.sb.numFreeInodes = value]

SetSbTimeLastWrite(w, value) == [w EXCEPT !.sb.timeLastWrite = value]

\* _Superblock.read at the superblock copy of a group
ReadSuperblock(img, g) ==
  IF ~OnDevice(img, g * numBlocksPerGroup + firstDataBlockId)
  THEN [err |-> "Invalid superblock."]
  ELSE [err |-> "", sb |-> img.sb[g]]

----------------------------------------------------------------------------
(* The block group descriptor table: src/ext2/fs/bgdt.py *)

\* _BGDTEntry.__writeData: one device write per copy (the primary alone when
\* _saveCopies is off), then the superblock's time of last write
RECURSIVE WriteToCopies(_, _, _, _, _)
WriteToCopies(img, groups, g, offset, byteString) ==
  IF groups = {} THEN img
  ELSE LET c == CHOOSE x \in groups : \A y \in groups : x <= y
       IN WriteToCopies(DeviceWrite(img, <<"bgdt", c, g, offset>>, byteString),
                        groups \ {c}, g, offset, byteString)

BgdtWriteData(w, g, offset, byteString, t) ==
  LET targets == IF w.sb.saveCopies THEN copyLocations ELSE {0}
      w1 == [w EXCEPT !.image = WriteToCopies(w.image, targets, g, offset, byteString)]
  IN SetSbTimeLastWrite(w1, t)

\* pack("<H", value) fails outside 0..65535, after the field was assigned
SetBgdtNumFreeBlocks(w, g, value, t) ==
  LET w1 == [w EXCEPT !.bgdt[g].numFreeBlocks = value]
  IN IF value \notin 0 .. MaxU16 THEN [w |-> w1, err |-> "struct.error"]
     ELSE [w |-> BgdtWriteData(w1, g, 12, LE16(value), t), err |-> ""]

SetBgdtNumFreeInodes(w, g, value, t) ==
  LET w1 == [w EXCEPT !.bgdt[g].numFreeInodes = value]
  IN IF value \notin 0 .. MaxU16 THEN [w |-> w1, err |-> "struct.error"]
     ELSE [w |-> BgdtWriteData(w1, g, 14, LE16(value), t), err |-> ""]

SetBgdtNumInodesAsDirs(w, g, value, t) ==
  LET w1 == [w EXCEPT !.bgdt[g].numInodesAsDirs = value]
  IN IF value \notin 0 .. MaxU16 THEN [w |-> w1, err |-> "struct.error"]
     ELSE [w |-> BgdtWriteData(w1, g, 16, LE16(value), t), err |-> ""]

\* _BGDT.read at the table copy of a group
ReadBGDT(img, g) ==
  IF ~OnDevice(img, g * numBlocksPerGroup + firstDataBlockId + 1)
  THEN [err |-> "Invalid block group descriptor table."]
  ELSE [err |-> "", entries |-> img.bgdt[g]]

----------------------------------------------------------------------------
(* Outcomes of a call: the state it leaves, its return value, its error *)

Ok(w, ret) == [w |-> w, ret |-> ret, err |-> ""]

Fail(w, err) == [w |-> w, ret |-> 0, err |-> err]

SetMin(S) == CHOOSE x \in S : \A y \in S : x <= y

\* list[i] of a Python list of length n: the index used, or -1 for IndexError
PyIndex(n, i) ==
  IF i >= 0 /\ i < n THEN i
  ELSE IF i < 0 /\ i >= 0 - n THEN n + i
  ELSE 0 - 1

IsNot255(byte) == byte # 255

\* the body with the value of a call bound to its parameter
With(value, Body(_)) == Body(value)

----------------------------------------------------------------------------
(* Block allocation: src/ext2/fs/filesystem.py *)

blockBitmapSize == numBlocksPerGroup \div 8

\* _allocateBlock without the decrement of the superblock's count
AllocateBlockKeepsSb(w, zeros, t) ==
  LET withFree == {g \in Groups : w.bgdt[g].numFreeBlocks > 0}
  IN IF withFree = {} THEN Fail(w, "No free blocks.")
     ELSE
       LET groupNum == SetMin(withFree)
           bitmap == ReadBlockBitmap(w.image, groupNum, blockBitmapSize)
           k == FirstIndex(bitmap, IsNot255)
       IN IF Len(bitmap) < blockBitmapSize THEN Fail(w, "Invalid block bitmap.")
          ELSE IF k = 0 THEN Fail(w, "No free blocks.")
          ELSE
            LET bid == (groupNum * numBlocksPerGroup) + ((k - 1) * 8) + FirstZeroBit(bitmap[k]) + firstDataBlockId
            IN With(SetBgdtNumFreeBlocks(w, groupNum, w.bgdt[groupNum].numFreeBlocks - 1, t), LAMBDA r3 :
                 IF r3.err # "" THEN Fail(r3.w, r3.err)
                 ELSE Ok(SetSbTimeLastWrite(r3.w, t), bid))

\* _freeBlock without the increment of the group's count
FreeBlockKeepsGroup(w, bid, t) ==
  LET g == PyIndex(numBlockGroups, (bid - firstDataBlockId) \div numBlocksPerGroup)
  IN IF g < 0 THEN Fail(w, "IndexError")
     ELSE Ok(SetSbNumFreeBlocks(w, w.sb.numFreeBlocks + 1), 0)

\* Ext2Filesystem._allocateBlock
AllocateBlock(w, zeros, t) ==
  LET withFree == {g \in Groups : w.bgdt[g].numFreeBlocks > 0}
  IN IF withFree = {} THEN Fail(w, "No free blocks.")
     ELSE
       LET groupNum == SetMin(withFree)
           bitmap == ReadBlockBitmap(w.image, groupNum, blockBitmapSize)
           k == FirstIndex(bitmap, IsNot255)
       IN IF Len(bitmap) < blockBitmapSize THEN Fail(w, "Invalid block bitmap.")
          ELSE IF k = 0 THEN Fail(w, "No free blocks.")
          ELSE
            LET byteIndex == k - 1
                byte == bitmap[k]
                i == FirstZeroBit(byte)
                bid == (groupNum * numBlocksPerGroup) + (byteIndex * 8) + i + firstDataBlockId
            IN With([w EXCEPT !.image =
                       DeviceWrite(@, <<"blockBitmap", groupNum, byteIndex>>, <<OrBit(byte, i)>>)], LAMBDA w1 :
               With(SetSbNumFreeBlocks(w1, w1.sb.numFreeBlocks - 1), LAMBDA w2 :
               With(SetBgdtNumFreeBlocks(w2, groupNum, w2.bgdt[groupNum].numFreeBlocks - 1, t), LAMBDA r3 :
                 IF r3.err # "" THEN Fail(r3.w, r3.err)
                 ELSE IF zeros
                   THEN Ok(SetSbTimeLastWrite(
                             [r3.w EXCEPT !.image = DeviceWrite(@, <<"data", bid, 0>>, Zeros(blockSize))], t),
                           bid)
                   ELSE Ok(SetSbTimeLastWrite(r3.w, t), bid))))

\* Ext2Filesystem._freeBlock
FreeBlock(w, bid, t) ==
  LET groupNum == (bid - firstDataBlockId) \div numBlocksPerGroup
      indexInGroup == (bid - firstDataBlockId) % numBlocksPerGroup
      byteIndex == indexInGroup \div 8
      bitIndex == indexInGroup % 8
      g == PyIndex(numBlockGroups, groupNum)
  IN IF g < 0 THEN Fail(w, "IndexError")
     ELSE
       LET bytes == Drop(ReadBlockBitmap(w.image, g, byteIndex + 1), byteIndex)
       IN IF bytes = <<>> THEN Fail(w, "struct.error")
          ELSE
            With([w EXCEPT !.image =
                    DeviceWrite(@, <<"blockBitmap", g, byteIndex>>, <<AndNotBit(bytes[1], bitIndex)>>)], LAMBDA w1 :
            With(SetSbNumFreeBlocks(w1, w1.sb.numFreeBlocks + 1), LAMBDA w2 :
            With(SetBgdtNumFreeBlocks(w2, g, w2.bgdt[g].numFreeBlocks + 1, t), LAMBDA r3 :
              IF r3.err # "" THEN Fail(r3.w, r3.err) ELSE Ok(r3.w, 0))))

----------------------------------------------------------------------------
(* Inodes: src/ext2/disk/inode.py *)

inodeBitmapSize == numInodesPerGroup \div 8

S_IFDIR == 16384       \* 0x4000
S_IFREG == 32768       \* 0x8000
S_IFLNK == 40960       \* 0xA000

\* a & b
RECURSIVE BitAnd(_, _)
BitAnd(a, b) ==
  IF a = 0 \/ b = 0 THEN 0
  ELSE (a % 2) * (b % 2) + 2 * BitAnd(a \div 2, b \div 2)

\* (mode & mask) != 0
HasBit(mode, mask) == BitAnd(mode, mask) # 0

NoBlocks == [k \in 0 .. 14 |-> 0]

\* _Inode.new
AllocateInode(w, mode, t) ==
  LET withFree == {g \in Groups : w.bgdt[g].numFreeInodes > 0}
  IN IF withFree = {} THEN Fail(w, "No free inodes.")
     ELSE
       LET bgroupNum == SetMin(withFree)
           bitmap == ReadInodeBitmap(w.image, bgroupNum, inodeBitmapSize)
           k == FirstIndex(bitmap, IsNot255)
       IN IF Len(bitmap) < inodeBitmapSize THEN Fail(w, "Invalid inode bitmap.")
          ELSE IF k = 0 THEN Fail(w, "No free inodes.")
          ELSE
            LET byteIndex == k - 1
                byte == bitmap[k]
                i == FirstZeroBit(byte)
                inodeNum == (bgroupNum * numInodesPerGroup) + (byteIndex * 8) + i + 1
                inode == [number |-> inodeNum, isUsed |-> TRUE, mode |-> mode % 65536,
                          size |-> 0, numLinks |-> 0, blocks |-> NoBlocks]
            IN With([w EXCEPT !.image =
                       DeviceWrite(@, <<"inodeBitmap", bgroupNum, byteIndex>>, <<OrBit(byte, i)>>)], LAMBDA w1 :
               With(SetSbNumFreeInodes(w1, w1.sb.numFreeInodes - 1), LAMBDA w2 :
               With(SetBgdtNumFreeInodes(w2, bgroupNum, w2.bgdt[bgroupNum].numFreeInodes - 1, t), LAMBDA r3 :
                 IF r3.err # "" THEN Fail(r3.w, r3.err)
                 ELSE
                   With(IF HasBit(mode, S_IFDIR)
                        THEN SetBgdtNumInodesAsDirs(r3.w, bgroupNum,
                                                    r3.w.bgdt[bgroupNum].numInodesAsDirs + 1, t)
                        ELSE r3, LAMBDA r4 :
                     IF r4.err # "" THEN Fail(r4.w, r4.err)
                     ELSE Ok([r4.w EXCEPT !.image = DeviceWrite(@, <<"inode", inodeNum, 0>>, inode)],
                             inode)))))

\* _Inode.read: the inode object of an inode number, its used flag taken from
\* the inode bitmap
ReadInode(w, inodeNum) ==
  LET bgroupNum == (inodeNum - 1) \div numInodesPerGroup
      bgroupIndex == (inodeNum - 1) % numInodesPerGroup
      g == PyIndex(numBlockGroups, bgroupNum)
      bitmapByteIndex == bgroupIndex \div 8
  IN IF g < 0 THEN Fail(w, "IndexError")
     ELSE
       LET bytes == Drop(ReadInodeBitmap(w.image, g, bitmapByteIndex + 1), bitmapByteIndex)
           onDisk == w.image.inodes[g * numInodesPerGroup + bgroupIndex + 1]
       IN IF bytes = <<>> THEN Fail(w, "struct.error")
          ELSE IF ~OnDevice(w.image, inodeTableLocation(g)) THEN Fail(w, "Invalid inode.")
          ELSE Ok(w, [number |-> inodeNum,
                      isUsed |-> TestBit(bytes[1], bgroupIndex % 8) # 0,
                      mode |-> onDisk.mode, size |-> onDisk.size,
                      numLinks |-> onDisk.numLinks, blocks |-> onDisk.blocks])

numIdsPerBlock == blockSize \div 4
numDirectBlocks == 12
numIndirectBlocks == numDirectBlocks + numIdsPerBlock
numDoublyIndirectBlocks == numIndirectBlocks + numIdsPerBlock * numIdsPerBlock
numTreblyIndirectBlocks == numDoublyIndirectBlocks + numIdsPerBlock * numIdsPerBlock * numIdsPerBlock

\* _Inode.__getBidListAtBid: the block ids stored in a block (0-based function),
\* or <<>> when the block cannot be read in full (unpack_from then fails)
GetBidListAtBid(img, bid) ==
  With(ReadData(img, bid, 0, blockSize), LAMBDA block :
    IF Len(block) < blockSize THEN <<>>
    ELSE [k \in 0 .. (numIdsPerBlock - 1) |-> UnLE32(block, 4 * k)])

\* _Inode.lookupBlockId: [err, ret]
\* lookupBlockId without the double and triple ranges
LookupBlockIdSingleLevel(img, inode, index) ==
  IF index < numDirectBlocks THEN [err |-> "", ret |-> inode.blocks[index]]
  ELSE With(GetBidListAtBid(img, inode.blocks[12]), LAMBDA directList :
         IF directList = <<>> THEN [err |-> "struct.error", ret |-> 0]
         ELSE [err |-> "", ret |-> directList[(index - numDirectBlocks) % numIdsPerBlock]])

LookupBlockId(img, inode, index) ==
  IF index < numDirectBlocks THEN [err |-> "", ret |-> inode.blocks[index]]
  ELSE IF index < numIndirectBlocks THEN
    With(GetBidListAtBid(img, inode.blocks[12]), LAMBDA directList :
      IF directList = <<>> THEN [err |-> "struct.error", ret |-> 0]
      ELSE [err |-> "", ret |-> directList[index - numDirectBlocks]])
  ELSE IF index < numDoublyIndirectBlocks THEN
    LET j == index - numIndirectBlocks
    IN With(GetBidListAtBid(img, inode.blocks[13]), LAMBDA indirectList :
         IF indirectList = <<>> THEN [err |-> "struct.error", ret |-> 0]
         ELSE
           With(GetBidListAtBid(img, indirectList[j \div numIdsPerBlock]), LAMBDA directList :
             IF directList = <<>> THEN [err |-> "struct.error", ret |-> 0]
             ELSE [err |-> "", ret |-> directList[j % numIdsPerBlock]]))
  ELSE IF index < numTreblyIndirectBlocks THEN
    LET j == index - numDoublyIndirectBlocks
        j2 == j % (numIdsPerBlock * numIdsPerBlock)
    IN With(GetBidListAtBid(img, inode.blocks[14]), LAMBDA doublyIndirectList :
         IF doublyIndirectList = <<>> THEN [err |-> "struct.error", ret |-> 0]
         ELSE
           With(GetBidListAtBid(img, doublyIndirectList[j \div (numIdsPerBlock * numIdsPerBlock)]),
                LAMBDA indirectList :
             IF indirectList = <<>> THEN [err |-> "struct.error", ret |-> 0]
             ELSE
               With(GetBidListAtBid(img, indirectList[j2 \div numIdsPerBlock]), LAMBDA directList :
                 IF directList = <<>> THEN [err |-> "struct.error", ret |-> 0]
                 ELSE [err |-> "", ret |-> directList[j2 % numIdsPerBlock]])))
  ELSE [err |-> "Block not found.", ret |-> 0]

\* _Inode.__writeData: a device write inside the inode record, then the
\* superblock's time of last write
InodeWriteData(w, inode, offset, byteString, t) ==
  SetSbTimeLastWrite(
    [w EXCEPT !.image = DeviceWrite(@, <<"inode", inode.number, offset>>, byteString)], t)

\* _Inode.assignNextBlockId: [w, inode, ret, err]
AssignNextBlockId(w, inode, bid, t) ==
  LET free == {i \in 0 .. 11 : inode.blocks[i] = 0}
  IN IF free = {} THEN [w |-> w, inode |-> inode, ret |-> 0, err |-> "Not implemented."]
     ELSE LET i == SetMin(free)
          IN [w |-> InodeWriteData(w, inode, 40 + (i * 4), LE32(bid), t),
              inode |-> [inode EXCEPT !.blocks[i] = bid], ret |-> i, err |-> ""]

\* _Inode.size setter (LE32 keeps the low 32 bits): [w, inode]
SetInodeSize(w, inode, value, t) ==
  [w |-> InodeWriteData(w, inode, 4, LE32(value), t),
   inode |-> [inode EXCEPT !.size = value]]

\* _Inode.numLinks setter: [w, inode]
SetInodeNumLinks(w, inode, value, t) ==
  [w |-> InodeWriteData(w, inode, 26, LE16(value), t),
   inode |-> [inode EXCEPT !.numLinks = value]]

\* the non-zero ids among the first ids of a 0-based list, up to its first zero
UntilZero(list, k, n) ==
  [i \in 1 .. (SetMin({j \in k .. (n - 1) : list[j] = 0} \cup {n}) - k) |-> list[k + i - 1]]

\* the ids of a list of data blocks up to its first zero; done when it has one
\* (an unreadable block gives no ids)
LeafIdsUntilZero(list) ==
  IF list = <<>> THEN [ids |-> <<>>, done |-> TRUE]
  ELSE With(UntilZero(list, 0, numIdsPerBlock), LAMBDA ids :
         [ids |-> ids, done |-> Len(ids) < numIdsPerBlock])

\* the loops of _Inode.getUsedBlocks over a list of indirect blocks (depth 1)
\* or of doubly indirect blocks (depth 2) from entry k on. A zero entry ends
\* the whole walk, except in the list of indirect blocks inside the trebly
\* indirect tree, where the loop has no else branch and goes on (skipZero).
RECURSIVE WalkIdLists(_, _, _, _, _)
WalkIdLists(img, list, k, depth, skipZero) ==
  IF list = <<>> THEN [ids |-> <<>>, done |-> TRUE]
  ELSE IF k >= numIdsPerBlock THEN [ids |-> <<>>, done |-> FALSE]
  ELSE IF list[k] = 0
    THEN IF skipZero THEN WalkIdLists(img, list, k + 1, depth, skipZero)
         ELSE [ids |-> <<>>, done |-> TRUE]
  ELSE With(IF depth = 1 THEN LeafIdsUntilZero(GetBidListAtBid(img, list[k]))
            ELSE WalkIdLists(img, GetBidListAtBid(img, list[k]), 0, 1, TRUE), LAMBDA sub :
         IF sub.done THEN [ids |-> <<list[k]>> \o sub.ids, done |-> TRUE]
         ELSE With(WalkIdLists(img, list, k + 1, depth, skipZero), LAMBDA rest :
                [ids |-> <<list[k]>> \o sub.ids \o rest.ids, done |-> rest.done]))

\* _Inode.getUsedBlocks: the ids of the block array up to its first zero, then
\* the ids under blocks[12], blocks[13] and blocks[14] where these are not 0
GetUsedBlocks(img, inode) ==
  With(IF inode.blocks[12] # 0 THEN LeafIdsUntilZero(GetBidListAtBid(img, inode.blocks[12]))
       ELSE [ids |-> <<>>, done |-> FALSE], LAMBDA single :
    IF single.done THEN UntilZero(inode.blocks, 0, 15) \o single.ids
    ELSE
      With(IF inode.blocks[13] # 0
           THEN WalkIdLists(img, GetBidListAtBid(img, inode.blocks[13]), 0, 1, FALSE)
           ELSE [ids |-> <<>>, done |-> FALSE], LAMBDA double :
        IF double.done THEN UntilZero(inode.blocks, 0, 15) \o single.ids \o double.ids
        ELSE
          With(IF inode.blocks[14] # 0
               THEN WalkIdLists(img, GetBidListAtBid(img, inode.blocks[14]), 0, 2, FALSE)
               ELSE [ids |-> <<>>, done |-> FALSE], LAMBDA triple :
            UntilZero(inode.blocks, 0, 15) \o single.ids \o double.ids \o triple.ids)))

----------------------------------------------------------------------------
(* Directory entries and file objects: src/ext2/file/directory.py, file.py *)

\* _Entry.__init__: unpacks "<IHB" at 0 and the name at offset 8: [err, entry]
NewEntry(blockIndex, blockId, blockOffset, byteString) ==
  IF Len(byteString) < 7 THEN [err |-> "struct.error"]
  ELSE IF Len(byteString) < 8 + byteString[7] THEN [err |-> "struct.error"]
  ELSE [err |-> "",
        entry |-> [name |-> SubSeq(byteString, 9, 8 + byteString[7]),
                   inodeNum |-> UnLE32(byteString, 0),
                   size |-> UnLE16(byteString, 4),
                   bindex |-> blockIndex, bid |-> blockId, offset |-> blockOffset]]

\* inner loop of _EntryList.__init__: the entries of one block from `offset` on.
\* An entry of size 0 and non-zero inode number makes the loop run forever.
RECURSIVE ParseBlock(_, _, _, _, _)
ParseBlock(blockBytes, i, blockId, offset, acc) ==
  IF offset >= blockSize THEN [err |-> "", entries |-> acc, offset |-> offset]
  ELSE With(NewEntry(i, blockId, offset, Drop(blockBytes, offset)), LAMBDA e :
         IF e.err # "" THEN [err |-> e.err, entries |-> acc, offset |-> offset]
         ELSE IF e.entry.inodeNum = 0 THEN [err |-> "", entries |-> acc, offset |-> offset]
         ELSE IF e.entry.size = 0 THEN [err |-> "hang", entries |-> acc, offset |-> offset]
         ELSE ParseBlock(blockBytes, i, blockId, offset + e.entry.size, Append(acc, e.entry)))

\* _EntryList.__init__: offset is not reset from one block to the next
RECURSIVE ParseEntries(_, _, _, _, _, _)
ParseEntries(img, inode, numBlocks, i, offset, acc) ==
  IF i >= numBlocks THEN [err |-> "", entries |-> acc]
  ELSE With(LookupBlockId(img, inode, i), LAMBDA l :
         IF l.err # "" THEN [err |-> l.err, entries |-> acc]
         ELSE IF l.ret = 0 THEN [err |-> "", entries |-> acc]
         ELSE
           With(ReadData(img, l.ret, 0, blockSize), LAMBDA blockBytes :
             IF Len(blockBytes) < blockSize THEN [err |-> "Invalid block.", entries |-> acc]
             ELSE
               With(ParseBlock(blockBytes, i, l.ret, offset, acc), LAMBDA r :
                 IF r.err # "" THEN [err |-> r.err, entries |-> acc]
                 ELSE ParseEntries(img, inode, numBlocks, i + 1, r.offset, r.entries))))

RootName == <<>>

\* Ext2Directory._openEntry with Ext2File.__init__ and the subclass
\* constructors: [err, file].  inodeNum 2 and the empty name for the root.
OpenEntry(w, name, inodeNum) ==
  With(ReadInode(w, inodeNum), LAMBDA r :
    IF r.err # "" THEN [err |-> r.err]
    ELSE
      With((r.ret.size + blockSize - 1) \div blockSize, LAMBDA numBlocks :
      With(IF HasBit(r.ret.mode, S_IFDIR) THEN "dir"
           ELSE IF HasBit(r.ret.mode, S_IFREG) THEN "regular"
           ELSE IF HasBit(r.ret.mode, S_IFLNK) THEN "symlink"
           ELSE "file", LAMBDA kind :
      With(IF kind = "dir" THEN ParseEntries(w.image, r.ret, numBlocks, 0, 0, <<>>)
           ELSE [err |-> "", entries |-> <<>>], LAMBDA list :
        IF list.err # "" THEN [err |-> list.err]
        ELSE [err |-> "",
              file |-> [name |-> name, inode |-> r.ret, numBlocks |-> numBlocks,
                        kind |-> kind, entries |-> list.entries]]))))

\* _openRootDirectory
OpenRootDirectory(w) == OpenEntry(w, RootName, 2)

Slash == 47
Dot == 46

\* re.compile("/+").split(relativePath): `cur` is the part being read, `sep`
\* tells that the previous character was a slash
RECURSIVE SplitPath(_, _, _, _)
SplitPath(s, cur, sep, acc) ==
  IF s = <<>> THEN Append(acc, cur)
  ELSE IF Head(s) = Slash
       THEN IF sep THEN SplitPath(Tail(s), cur, TRUE, acc)
            ELSE SplitPath(Tail(s), <<>>, TRUE, Append(acc, cur))
       ELSE SplitPath(Tail(s), Append(cur, Head(s)), FALSE, acc)

\* the path parts of getFileAt, after the leading and trailing empty parts are dropped
PathParts(relativePath) ==
  With(SplitPath(relativePath, <<>>, FALSE, <<>>), LAMBDA p0 :
  With(IF Len(p0) > 1 /\ p0[1] = <<>> THEN Tail(p0) ELSE p0, LAMBDA p1 :
    IF Len(p1) > 1 /\ p1[Len(p1)] = <<>> THEN SubSeq(p1, 1, Len(p1) - 1) ELSE p1))

\* the loop of getFileAt over the path parts: [err, file]
RECURSIVE WalkParts(_, _, _)
WalkParts(w, curFile, parts) ==
  IF parts = <<>> THEN [err |-> "", file |-> curFile]
  ELSE With(IF curFile.kind = "dir"
            THEN FirstIndex(curFile.entries, LAMBDA e : e.name = Head(parts))
            ELSE 0, LAMBDA k :
         IF k = 0 THEN WalkParts(w, curFile, Tail(parts))
         ELSE
           With(OpenEntry(w, curFile.entries[k].name, curFile.entries[k].inodeNum), LAMBDA o :
             IF o.err # "" THEN [err |-> o.err]
             ELSE WalkParts(w, o.file, Tail(parts))))

\* Ext2Directory.getFileAt: [err, file]
GetFileAt(w, self, relativePath) ==
  With(PathParts(relativePath), LAMBDA pathParts :
  With(WalkParts(w, self, pathParts), LAMBDA r :
    IF r.err # "" THEN r
    ELSE IF pathParts[Len(pathParts)] # <<>> /\ pathParts[Len(pathParts)] # r.file.name
      THEN [err |-> "FileNotFoundError"]
    ELSE r))

----------------------------------------------------------------------------
(* Writing: src/ext2/fs/filesystem.py, src/ext2/file/regularfile.py *)

Min(a, b) == IF a < b THEN a ELSE b

\* Ext2Filesystem._writeToBlock: [w, err]
WriteToBlock(w, bid, offset, byteString, t) ==
  IF offset + Len(byteString) > blockSize THEN [w |-> w, err |-> "AssertionError"]
  ELSE [w |-> SetSbTimeLastWrite(
                [w EXCEPT !.image = DeviceWrite(@, <<"data", bid, offset>>, byteString)], t),
        err |-> ""]

\* the loop of Ext2RegularFile.write: byteString is what is left to write,
\* written what has been written, and the loop goes on while
\* written < len(byteString): [w, inode, err]
RECURSIVE WriteLoop(_, _, _, _, _)
WriteLoop(w, inode, byteString, written, t) ==
  IF ~(written < Len(byteString)) THEN [w |-> w, inode |-> inode, err |-> ""]
  ELSE
    LET blockIndex == inode.size \div blockSize
        byteIndex == inode.size % blockSize
        numBytesToWrite == Min(Len(byteString), blockSize - byteIndex)
    IN With(LookupBlockId(w.image, inode, blockIndex), LAMBDA l :
         IF l.err # "" THEN [w |-> w, inode |-> inode, err |-> l.err]
         ELSE
           \* the block to write to: [w, inode, ret, err]
           With(IF l.ret # 0 THEN [w |-> w, inode |-> inode, ret |-> l.ret, err |-> ""]
                ELSE With(AllocateBlock(w, FALSE, t), LAMBDA a :
                       IF a.err # "" THEN [w |-> a.w, inode |-> inode, ret |-> 0, err |-> a.err]
                       ELSE With(AssignNextBlockId(a.w, inode, a.ret, t), LAMBDA s :
                              [w |-> s.w, inode |-> s.inode, ret |-> a.ret, err |-> s.err])),
                LAMBDA b :
             IF b.err # "" THEN [w |-> b.w, inode |-> inode, err |-> b.err]
             ELSE
               With(WriteToBlock(b.w, b.ret, byteIndex, Take(byteString, numBytesToWrite), t), LAMBDA wr :
                 IF wr.err # "" THEN [w |-> wr.w, inode |-> b.inode, err |-> wr.err]
                 ELSE
                   With(SetInodeSize(wr.w, b.inode, b.inode.size + numBytesToWrite, t), LAMBDA sz :
                     WriteLoop(sz.w, sz.inode, Drop(byteString, numBytesToWrite),
                               written + numBytesToWrite, t)))))

\* Ext2RegularFile.write: [w, file, err]
Write(w, file, byteString, t) ==
  With(WriteLoop(w, file.inode, byteString, 0, t), LAMBDA r :
    [w |-> r.w, file |-> [file EXCEPT !.inode = r.inode], err |-> r.err])

\* Ext2File.size
FileSize(file) == IF file.kind = "regular" THEN file.inode.size ELSE 0

\* Ext2RegularFile.blocks: the blocks generated, [err, blocks]
RECURSIVE BlocksFrom(_, _, _, _)
BlocksFrom(w, file, i, acc) ==
  IF i >= file.numBlocks THEN [err |-> "", blocks |-> acc]
  ELSE With(LookupBlockId(w.image, file.inode, i), LAMBDA l :
         IF l.err # "" THEN [err |-> l.err, blocks |-> acc]
         ELSE IF l.ret = 0 THEN [err |-> "", blocks |-> acc]
         ELSE
           With(ReadData(w.image, l.ret, 0, blockSize), LAMBDA block :
             IF Len(block) < blockSize THEN [err |-> "Invalid block.", blocks |-> acc]
             ELSE IF (i + 1) * blockSize > FileSize(file)
               THEN BlocksFrom(w, file, i + 1, Append(acc, Take(block, FileSize(file) % blockSize)))
             ELSE BlocksFrom(w, file, i + 1, Append(acc, block))))

Blocks(w, file) == BlocksFrom(w, file, 0, <<>>)

----------------------------------------------------------------------------
(* Creating entries: src/ext2/file/directory.py *)

\* _Entry.nextEntry setter of lastEntry: writes the record length, [w, err]
SetNextEntry(w, lastEntry, value, t) ==
  LET newSize == IF value.bindex = lastEntry.bindex
                 THEN value.offset - lastEntry.offset
                 ELSE blockSize - lastEntry.offset + value.offset
  IN IF value.bindex = lastEntry.bindex /\ ~(newSize > 0) THEN [w |-> w, err |-> "AssertionError"]
     ELSE IF newSize \notin 0 .. MaxU16 THEN [w |-> w, err |-> "struct.error"]
     ELSE WriteToBlock(w, lastEntry.bid, lastEntry.offset + 4, LE16(newSize), t)

\* _EntryList.append on the entry list of directory `dir`: [w, dir, err, entry].
\* The record is packed as "<IHB{n}s", 7 + n bytes, and handed to _Entry.
EntryListAppend(w, dir, name, inodeNum, t) ==
  LET nameLength == Len(name)
      lastEntry == dir.entries[Len(dir.entries)]
      entrySize == (nameLength + 11) - ((nameLength + 11) % 4)
      byteString == LE32(inodeNum) \o LE16(entrySize) \o <<nameLength>> \o name
  IN IF nameLength > 255 \/ nameLength = 0 THEN [w |-> w, dir |-> dir, err |-> "AssertionError"]
     ELSE IF dir.entries = <<>> THEN [w |-> w, dir |-> dir, err |-> "IndexError"]
     ELSE
       \* the place of the new entry: [w, inode, bindex, bid, offset, err]
       With(IF entrySize + lastEntry.offset + lastEntry.size < blockSize
            THEN [w |-> w, inode |-> dir.inode, bindex |-> lastEntry.bindex, bid |-> lastEntry.bid,
                  offset |-> lastEntry.offset + lastEntry.size, err |-> ""]
            ELSE With(AllocateBlock(w, TRUE, t), LAMBDA a :
                   IF a.err # ""
                   THEN [w |-> a.w, inode |-> dir.inode, bindex |-> 0, bid |-> 0, offset |-> 0,
                         err |-> a.err]
                   ELSE With(AssignNextBlockId(a.w, dir.inode, a.ret, t), LAMBDA s :
                          IF s.err # ""
                          THEN [w |-> s.w, inode |-> dir.inode, bindex |-> 0, bid |-> 0, offset |-> 0,
                                err |-> s.err]
                          ELSE With(SetInodeSize(s.w, s.inode, s.inode.size + blockSize, t), LAMBDA sz :
                                 [w |-> sz.w, inode |-> sz.inode, bindex |-> s.ret, bid |-> a.ret,
                                  offset |-> 0, err |-> ""]))),
            LAMBDA at :
         IF at.err # "" THEN [w |-> at.w, dir |-> dir, err |-> at.err]
         ELSE
           With([dir EXCEPT !.inode = at.inode], LAMBDA dir1 :
           With(WriteToBlock(at.w, at.bid, at.offset, byteString, t), LAMBDA wr :
             IF wr.err # "" THEN [w |-> wr.w, dir |-> dir1, err |-> wr.err]
             ELSE
               With(NewEntry(at.bindex, at.bid, at.offset, byteString), LAMBDA e :
                 IF e.err # "" THEN [w |-> wr.w, dir |-> dir1, err |-> e.err]
                 ELSE
                   With(SetNextEntry(wr.w, lastEntry, e.entry, t), LAMBDA n :
                     IF n.err # "" THEN [w |-> n.w, dir |-> dir1, err |-> n.err]
                     ELSE [w |-> n.w, dir |-> dir1, err |-> "", entry |-> e.entry])))))

Whitespace == {9, 10, 11, 12, 13, 32}

\* len(name.strip()) == 0
IsBlank(name) == \A k \in 1 .. Len(name) : name[k] \in Whitespace

\* name.rindex("/"), 0-based, for a name that holds a slash
RIndexSlash(name) == (CHOOSE k \in 1 .. Len(name) :
                        name[k] = Slash /\ \A j \in (k + 1) .. Len(name) : name[j] # Slash) - 1

\* Ext2Directory.__makeNewEntry for a name without a slash: [w, dir, err, entry]
MakeNewEntryHere(w, dir, name, mode, t) ==
  IF IsBlank(name) THEN [w |-> w, dir |-> dir, err |-> "No name specified."]
  ELSE IF \E k \in 1 .. Len(dir.entries) : dir.entries[k].name = name
    THEN [w |-> w, dir |-> dir, err |-> "An entry with that name already exists."]
  ELSE
    With(AllocateInode(w, mode, t), LAMBDA i :
      IF i.err # "" THEN [w |-> i.w, dir |-> dir, err |-> i.err]
      ELSE
        With(AllocateBlock(i.w, TRUE, t), LAMBDA b :
          IF b.err # "" THEN [w |-> b.w, dir |-> dir, err |-> b.err]
          ELSE
            With(AssignNextBlockId(b.w, i.ret, b.ret, t), LAMBDA s :
              IF s.err # "" THEN [w |-> s.w, dir |-> dir, err |-> s.err]
              ELSE
                With(SetInodeSize(s.w, s.inode, s.inode.size + blockSize, t), LAMBDA sz :
                With(EntryListAppend(sz.w, dir, name, sz.inode.number, t), LAMBDA ap :
                  IF ap.err # "" THEN [w |-> ap.w, dir |-> ap.dir, err |-> ap.err]
                  ELSE [w |-> SetInodeNumLinks(ap.w, sz.inode, sz.inode.numLinks + 1, t).w,
                        dir |-> ap.dir, err |-> "", entry |-> ap.entry])))))

\* Ext2Directory.__makeNewEntry: a name with a slash is made in the directory
\* that getFileAt finds for the part before the last slash
MakeNewEntry(w, dir, name, mode, t) ==
  IF \E k \in 1 .. Len(name) : name[k] = Slash
  THEN With(GetFileAt(w, dir, Take(name, RIndexSlash(name))), LAMBDA parent :
         IF parent.err # "" THEN [w |-> w, dir |-> dir, err |-> parent.err]
         ELSE IF parent.file.kind # "dir" THEN [w |-> w, dir |-> dir, err |-> "AttributeError"]
         ELSE
           With(MakeNewEntryHere(w, parent.file, Drop(name, RIndexSlash(name) + 1), mode, t), LAMBDA r :
             IF r.err # "" THEN [w |-> r.w, dir |-> dir, err |-> r.err]
             ELSE [w |-> r.w, dir |-> dir, err |-> "", entry |-> r.entry]))
  ELSE MakeNewEntryHere(w, dir, name, mode, t)

\* the mode makeDirectory builds: 0x4000 | 0x100 | 0x80 | 0x40 | 0x20 | 0x8 | 0x4 | 0x1
NewDirectoryMode == 16384 + 256 + 128 + 64 + 32 + 8 + 4 + 1

\* Ext2Directory.makeDirectory: [w, dir, err].  After the entry is made the
\* method calls entry._append, which _Entry does not have.
MakeDirectory(w, dir, name, t) ==
  With(MakeNewEntry(w, dir, name, NewDirectoryMode, t), LAMBDA r :
    IF r.err # "" THEN [w |-> r.w, dir |-> r.dir, err |-> r.err]
    ELSE [w |-> r.w, dir |-> r.dir, err |-> "AttributeError"])

\* Ext2Directory.makeRegularFile: the body is `pass`
MakeRegularFile(w, dir, name) == [w |-> w, dir |-> dir, err |-> ""]

----------------------------------------------------------------------------
(* The integrity check: src/ext2/fs/filesystem.py *)

Message(text, group, n, field) == [text |-> text, group |-> group, n |-> n, field |-> field]

\* the public fields of _Superblock that an operation can change
SbFields == {"numFreeBlocks", "numFreeInodes", "timeLastWrite"}

\* the public fields of _BGDTEntry that an operation can change
BgdtFields == {"numFreeBlocks", "numFreeInodes", "numInodesAsDirs"}

\* the messages about the superblock and table copies of one group
CopyMessages(w, groupId) ==
  With(ReadSuperblock(w.image, groupId), LAMBDA sbCopy :
    IF sbCopy.err # "" THEN {Message("Superblock could not be read.", groupId, 0, "")}
    ELSE
      With({Message("Superblock has inconsistent field", groupId, 0, m) :
              m \in {f \in SbFields : sbCopy.sb[f] # w.sb[f]}}, LAMBDA sbMsgs :
      With(ReadBGDT(w.image, groupId), LAMBDA bgtCopy :
        IF bgtCopy.err # ""
        THEN sbMsgs \cup {Message("Block group descriptor table could not be read.", groupId, 0, "")}
        ELSE sbMsgs \cup
             {Message("Block group descriptor table entry has inconsistent field",
                      groupId, x[1], x[2]) :
                x \in {y \in Groups \X BgdtFields :
                         bgtCopy.entries[y[1]][y[2]] # w.bgdt[y[1]][y[2]]}})))

\* the numbers of the set bits of a sequence of bitmaps, from `first` on,
\* numbersPerGroup numbers in each group
SetBitNumbers(bitmaps, numbersPerGroup, first) ==
  {(x[1] * numbersPerGroup) + ((x[2] - 1) * 8) + x[3] + first :
     x \in {y \in Groups \X (1 .. (numbersPerGroup \div 8)) \X (0 .. 7) :
              TestBit(bitmaps[y[1]][y[2]], y[3]) = 1}}

\* Ext2Filesystem.__getUsedInodes: [err, used]
UsedInodes(w) ==
  With([g \in Groups |-> ReadInodeBitmap(w.image, g, inodeBitmapSize)], LAMBDA bitmaps :
    IF \E g \in Groups : Len(bitmaps[g]) < inodeBitmapSize
    THEN [err |-> "Invalid inode bitmap.", used |-> {}]
    ELSE [err |-> "",
          used |-> {inum \in SetBitNumbers(bitmaps, numInodesPerGroup, 1) : inum >= firstInode}])

\* Ext2Filesystem.__getUsedBlocks: [err, used]
UsedBlocks(w) ==
  With([g \in Groups |-> ReadBlockBitmap(w.image, g, blockBitmapSize)], LAMBDA bitmaps :
    IF \E g \in Groups : Len(bitmaps[g]) < blockBitmapSize
    THEN [err |-> "Invalid block bitmap.", used |-> {}]
    ELSE [err |-> "", used |-> SetBitNumbers(bitmaps, numBlocksPerGroup, firstDataBlockId)])

IsDotName(name) == name = <<Dot>> \/ name = <<Dot, Dot>>

\* the walk of checkIntegrity: the files opened from the entries of the
\* directories in the queue, in the order of the walk, [err, files].  A
\* directory that is its own descendant keeps the walk going forever.
RECURSIVE WalkTree(_, _, _, _)
WalkTree(w, queue, acc, fuel) ==
  IF queue = <<>> THEN [err |-> "", files |-> acc]
  ELSE IF fuel = 0 THEN [err |-> "hang", files |-> acc]
  ELSE
    With([k \in 1 .. Len(Head(queue).entries) |->
            OpenEntry(w, Head(queue).entries[k].name, Head(queue).entries[k].inodeNum)], LAMBDA opened :
      IF \E k \in 1 .. Len(opened) : opened[k].err # ""
      THEN [err |-> opened[SetMin({k \in 1 .. Len(opened) : opened[k].err # ""})].err, files |-> acc]
      ELSE
        With(SelectSeq([k \in 1 .. Len(opened) |-> opened[k].file],
                       LAMBDA f : ~IsDotName(f.name)), LAMBDA found :
          WalkTree(w, Tail(queue) \o SelectSeq(found, LAMBDA f : f.kind = "dir"),
                   acc \o found, fuel - 1)))

\* the block references of the files, in the order of the walk
RECURSIVE References(_, _)
References(w, found) ==
  IF found = <<>> THEN <<>>
  ELSE With(IF Head(found).kind # "symlink" \/ FileSize(Head(found)) > 60
            THEN GetUsedBlocks(w.image, Head(found).inode) ELSE <<>>, LAMBDA ids :
         [k \in 1 .. Len(ids) |-> [inodeNum |-> Head(found).inode.number, bid |-> ids[k]]]
         \o References(w, Tail(found)))

\* the messages about the block references
ReferenceMessages(refs, blocks) ==
  {Message("referencing a block that is not marked as used", 0, refs[k].bid, "") :
     k \in {j \in 1 .. Len(refs) : refs[j].bid \notin blocks}}
  \cup
  {Message("Block id is being referenced by both", 0, refs[k].bid, "") :
     k \in {j \in 1 .. Len(refs) :
              refs[j].bid \in blocks /\ \E i \in 1 .. (j - 1) : refs[i].bid = refs[j].bid}}

\* Ext2Filesystem.checkIntegrity: [err, messages]
CheckIntegrity(w, rootDir) ==
  With(UsedInodes(w), LAMBDA inodes :
    IF inodes.err # "" THEN [err |-> inodes.err, messages |-> {}]
    ELSE
      With(UsedBlocks(w), LAMBDA blocks :
        IF blocks.err # "" THEN [err |-> blocks.err, messages |-> {}]
        ELSE
          With(WalkTree(w, <<rootDir>>, <<>>, NumInodes), LAMBDA walk :
            IF walk.err # "" THEN [err |-> walk.err, messages |-> {}]
            ELSE
              With({j \in 1 .. Len(walk.files) :
                      walk.files[j].inode.isUsed /\ walk.files[j].inode.number \in inodes.used},
                   LAMBDA marked :
                [err |-> "",
                 messages |->
                   UNION {CopyMessages(w, groupId) : groupId \in copyLocations \ {0}}
                   \cup {Message("entry whose inode is not marked as used", 0,
                                 walk.files[k].inode.number, "") :
                           k \in (1 .. Len(walk.files)) \ marked}
                   \cup ReferenceMessages(References(w, walk.files), blocks.used)
                   \cup {Message("Inode is marked as used but is not reachable", 0, inum, "") :
                           inum \in inodes.used \ {walk.files[k].inode.number : k \in marked}}]))))

----------------------------------------------------------------------------
(* The image under test *)

NameA == <<97>>
NameB == <<98>>
NameF == <<102>>
NameG == <<103>>

\* an on-disk directory record: inode (4), rec_len (2), name_len (1),
\* file_type (1), name, padding up to rec_len
DirEntryBytes(inodeNum, recLen, name) ==
  LE32(inodeNum) \o LE16(recLen) \o <<Len(name), 0>> \o name \o Zeros(recLen - 8 - Len(name))

ModeDir == 16877        \* 040755
ModeReg == 33188        \* 0100644

RootBlock ==
  DirEntryBytes(2, 12, <<Dot>>) \o DirEntryBytes(2, 12, <<Dot, Dot>>) \o
  DirEntryBytes(3, 12, NameA) \o DirEntryBytes(4, 12, NameF) \o DirEntryBytes(5, 16, NameG)

DirABlock ==
  DirEntryBytes(3, 12, <<Dot>>) \o DirEntryBytes(2, 12, <<Dot, Dot>>) \o DirEntryBytes(6, 40, NameB)

BlocksOf(ids) == [k \in 0 .. 14 |-> IF k < Len(ids) THEN ids[k + 1] ELSE 0]

\* the inode table: / (2), /a (3), /f (4), /g (5), /a/b (6); /f has the
\* given size and blocks
InodeTableWith(fSize, fBlocks) ==
  [n \in 1 .. NumInodes |->
     IF n = 2 THEN [mode |-> ModeDir, size |-> blockSize, numLinks |-> 3, blocks |-> BlocksOf(<<7>>)]
     ELSE IF n = 3 THEN [mode |-> ModeDir, size |-> blockSize, numLinks |-> 2, blocks |-> BlocksOf(<<8>>)]
     ELSE IF n = 4 THEN [mode |-> ModeReg, size |-> fSize, numLinks |-> 1, blocks |-> BlocksOf(fBlocks)]
     ELSE IF n = 5 THEN [mode |-> ModeReg, size |-> blockSize + 6, numLinks |-> 1, blocks |-> BlocksOf(<<9, 10>>)]
     ELSE IF n = 6 THEN [mode |-> ModeReg, size |-> 0, numLinks |-> 1, blocks |-> NoBlocks]
     ELSE [mode |-> 0, size |-> 0, numLinks |-> 0, blocks |-> NoBlocks]]

\* /f is empty
InodeTable == InodeTableWith(0, <<>>)

DataBlocks ==
  (7 :> RootBlock) @@ (8 :> DirABlock) @@
  (9 :> [k \in 1 .. blockSize |-> 1]) @@
  (10 :> [k \in 1 .. blockSize |-> IF k <= 6 THEN 2 ELSE 0])

\* An image with the given bitmaps and inode table whose superblock and BGDT
\* copies all carry the free counts of the bitmaps.
MkImageWith(blockBitmaps, inodeBitmaps, size, inodeTable) ==
  LET table == [g \in Groups |->
                  [numFreeBlocks |-> ZeroBits(blockBitmaps[g]),
                   numFreeInodes |-> ZeroBits(inodeBitmaps[g]),
                   numInodesAsDirs |-> IF g = 0 THEN 2 ELSE 0]]
      super == [numFreeBlocks |-> SeqSum([k \in 1 .. numBlockGroups |-> table[k - 1].numFreeBlocks]),
                numFreeInodes |-> SeqSum([k \in 1 .. numBlockGroups |-> table[k - 1].numFreeInodes]),
                timeLastWrite |-> 0]
  IN [exists |-> TRUE,
      size |-> size,
      sb |-> [c \in copyLocations |-> super],
      bgdt |-> [c \in copyLocations |-> table],
      blockBitmap |-> blockBitmaps,
      inodeBitmap |-> inodeBitmaps,
      inodes |-> inodeTable,
      data |-> DataBlocks]

MkImage(blockBitmaps, inodeBitmaps, size) ==
  MkImageWith(blockBitmaps, inodeBitmaps, size, InodeTable)

FullSize == firstDataBlockId + numBlockGroups * numBlocksPerGroup

\* group 0: blocks 1..10 in use (6 of metadata, 2 directories, 2 of /g),
\* possibly more marked; group 1: 6 blocks of metadata, or all marked
InitBlockBitmaps ==
  {[g \in Groups |-> IF g = 0 THEN <<255, b0>> ELSE b1] :
     b0 \in {3, 131, 255}, b1 \in {<<63, 0>>, <<255, 255>>}}

\* inodes 1..6 in use, possibly 7 and 8 marked as well
InitInodeBitmaps ==
  {[g \in Groups |-> IF g = 0 THEN <<i0>> ELSE <<0>>] : i0 \in {63, 255}}

Images ==
  {MkImage(bb, ib, FullSize) : bb \in InitBlockBitmaps, ib \in InitInodeBitmaps}

----------------------------------------------------------------------------
(* The mounted filesystem *)

World == [image |-> image, sb |-> sb, bgdt |-> bgdt]

\* Ext2Filesystem.mount: the superblock and the table of group 0
Mount(img) ==
  [image |-> img,
   sb |-> [numFreeBlocks |-> img.sb[0].numFreeBlocks,
           numFreeInodes |-> img.sb[0].numFreeInodes,
           timeLastWrite |-> img.sb[0].timeLastWrite,
           saveCopies |-> TRUE],
   bgdt |-> img.bgdt[0]]

Snapshot ==
  [image |-> image, sb |-> sb, bgdt |-> bgdt, files |-> files,
   isMounted |-> isMounted, isValid |-> isValid]

NoOp == [op |-> "none", arg |-> 0, ret |-> 0, err |-> "", pre |-> 0]

\* the file objects the caller holds after mounting and walking the tree
Handles == {"/", "/a", "/f", "/g", "/a/b"}

\* the file at a one-part path of a directory
Child(w, dir, name) == GetFileAt(w, dir, name).file

OpenAll(w) ==
  With(OpenRootDirectory(w).file, LAMBDA root :
    [h \in Handles |->
       IF h = "/" THEN root
       ELSE Child(w, IF h = "/a/b" THEN Child(w, root, NameA) ELSE root,
                  IF h = "/a" THEN NameA
                  ELSE IF h = "/f" THEN NameF
                  ELSE IF h = "/g" THEN NameG
                  ELSE NameB)])

\* the filesystem mounted on one of the images, no operation performed yet
Mounted(images) ==
  /\ image \in images
  /\ sb = Mount(image).sb
  /\ bgdt = Mount(image).bgdt
  /\ isMounted = TRUE
  /\ isValid = TRUE
  /\ clock = 0
  /\ steps = 0
  /\ last = NoOp
  /\ prev = NoOp

Init ==
  /\ Mounted(Images)
  /\ files = OpenAll(Mount(image))

Commit(r, op, arg, ret) ==
  /\ image' = r.w.image
  /\ sb' = r.w.sb
  /\ bgdt' = r.w.bgdt
  /\ steps' = steps + 1
  /\ last' = [op |-> op, arg |-> arg, ret |-> ret, err |-> r.err, pre |-> Snapshot]
  /\ prev' = last
  /\ UNCHANGED <<isMounted, isValid>>

\* time passes
Tick ==
  /\ clock < MaxClock
  /\ clock' = clock + 1
  /\ UNCHANGED <<image, sb, bgdt, files, isMounted, isValid, steps, last, prev>>

DoAllocateBlock ==
  /\ steps < MaxSteps
  /\ \E zeros \in BOOLEAN :
       \E r \in {AllocateBlock(World, zeros, clock)} :
         Commit(r, "allocateBlock", zeros, r.ret)
  /\ UNCHANGED <<files, clock>>

\* block ids below the first block, of a file, free in either group and past
\* the last group
FreeArgs == {0, 9, 11, 23, 33}

DoFreeBlock ==
  /\ steps < MaxSteps
  /\ \E bid \in FreeArgs :
       \E r \in {FreeBlock(World, bid, clock)} :
         Commit(r, "freeBlock", bid, 0)
  /\ UNCHANGED <<files, clock>>

DoAllocateInode ==
  /\ steps < MaxSteps
  /\ \E mode \in {ModeDir, ModeReg} :
       \E r \in {AllocateInode(World, mode, clock)} :
         Commit(r, "allocateInode", mode, IF r.err = "" THEN r.ret.number ELSE 0)
  /\ UNCHANGED <<files, clock>>

Next == Tick \/ DoAllocateBlock \/ DoFreeBlock \/ DoAllocateInode

Spec == Init /\ [][Next]_vars

----------------------------------------------------------------------------
(* Operations on files and directories *)

\* the images on which the integrity check finds nothing
CleanImages ==
  {img \in Images :
     CheckIntegrity(Mount(img), OpenRootDirectory(Mount(img)).file) = [err |-> "", messages |-> {}]}

InitFiles ==
  /\ Mounted(CleanImages)
  /\ files = OpenAll(Mount(image))

CommitFile(r, h, file, op, arg, ret) ==
  /\ Commit(r, op, arg, ret)
  /\ files' = [files EXCEPT ![h] = file]

NameX == <<120>>

\* the byte string written: n bytes, each telling its position
Bytes(n) == [k \in 1 .. n |-> k % 256]

\* less than a block, a block and a byte, two blocks and a part of a third
WriteLens == {1, blockSize + 1, 2 * blockSize + 28}

DoWrite ==
  /\ steps < MaxFileSteps
  /\ \E h \in {"/f", "/g", "/a/b"}, n \in WriteLens :
       \E r \in {Write(World, files[h], Bytes(n), clock)} :
         CommitFile(r, h, r.file, "write", [h |-> h, byteString |-> Bytes(n)], 0)
  /\ UNCHANGED clock

DoAppend ==
  /\ steps < MaxFileSteps
  /\ \E h \in {"/", "/a"}, name \in {NameX, <<>>} :
       \E r \in {EntryListAppend(World, files[h], name, 7, clock)} :
         CommitFile(r, h, r.dir, "append", [h |-> h, name |-> name, inodeNum |-> 7], 0)
  /\ UNCHANGED clock

\* a new name, a name in use, no name, a name in a subdirectory
MakeDirectoryArgs ==
  {<<"/", NameX>>, <<"/", NameA>>, <<"/", <<>>>>, <<"/", NameA \o <<Slash>> \o NameX>>, <<"/a", NameX>>}

DoMakeDirectory ==
  /\ steps < MaxFileSteps
  /\ \E a \in MakeDirectoryArgs :
       \E r \in {MakeDirectory(World, files[a[1]], a[2], clock)} :
         CommitFile(r, a[1], r.dir, "makeDirectory", [h |-> a[1], name |-> a[2]], 0)
  /\ UNCHANGED clock

DoMakeRegularFile ==
  /\ steps < MaxFileSteps
  /\ \E r \in {MakeRegularFile(World, files["/"], NameX)} :
       CommitFile(r, "/", r.dir, "makeRegularFile", [h |-> "/", name |-> NameX], 0)
  /\ UNCHANGED clock

DoCheckIntegrity ==
  /\ steps < MaxFileSteps
  /\ \E r \in {CheckIntegrity(World, files["/"])} :
       Commit([w |-> World, err |-> r.err], "checkIntegrity", 0, Cardinality(r.messages))
  /\ UNCHANGED <<files, clock>>

NextFiles ==
  Tick \/ DoWrite \/ DoAppend \/ DoMakeDirectory \/ DoMakeRegularFile \/ DoCheckIntegrity

SpecFiles == InitFiles /\ [][NextFiles]_vars

----------------------------------------------------------------------------
(* Path lookup *)

MaxPathLen == 3
MaxLookups == 1

\* "/", "a", "b", "f" and "x": no entry is called x
PathChars == {Slash, 97, 98, 102, 120}

\* the byte strings over a set of characters of at most n characters
RECURSIVE StringsUpTo(_, _)
StringsUpTo(chars, n) ==
  IF n = 0 THEN {<<>>}
  ELSE {<<>>} \cup {Append(str, c) : str \in StringsUpTo(chars, n - 1), c \in chars}

Paths == StringsUpTo(PathChars, MaxPathLen)

DoGetFileAt ==
  /\ steps < MaxLookups
  /\ \E h \in {"/", "/a"}, relativePath \in Paths :
       \E r \in {GetFileAt(World, files[h], relativePath)} :
         Commit([w |-> World, err |-> r.err], "getFileAt",
                [h |-> h, relativePath |-> relativePath],
                IF r.err = "" THEN r.file.inode.number ELSE 0)
  /\ UNCHANGED <<files, clock>>

NextLookup == Tick \/ DoGetFileAt

SpecLookup == InitFiles /\ [][NextLookup]_vars

----------------------------------------------------------------------------
(* The integrity check on damaged images *)

\* the file holds the first group only, a part of the second group, or all
ImageSizes == {firstDataBlockId + numBlocksPerGroup,
               blockBitmapLocation(1), inodeBitmapLocation(1), inodeTableLocation(1), FullSize}

\* /f without blocks, with a block past the last group, with a block of /g
DamagedInodeTables == {InodeTableWith(0, <<>>), InodeTableWith(1, <<40>>), InodeTableWith(1, <<9>>)}

\* all of /g's blocks marked, or its second block unmarked
DamagedBlockBitmaps == {[g \in Groups |-> IF g = 0 THEN <<255, b0>> ELSE <<63, 0>>] : b0 \in {3, 1}}

\* all the inodes of the entries marked, or /a/b unmarked, or two more marked
DamagedInodeBitmaps == {[g \in Groups |-> IF g = 0 THEN <<i0>> ELSE <<0>>] : i0 \in {63, 31, 255}}

\* the images built from these on which mount succeeds
DamagedImages ==
  {img \in {MkImageWith(bb, ib, size, it) :
              bb \in DamagedBlockBitmaps, ib \in DamagedInodeBitmaps,
              size \in ImageSizes, it \in DamagedInodeTables} :
     /\ ReadSuperblock(img, 0).err = ""
     /\ ReadBGDT(img, 0).err = ""
     /\ OpenRootDirectory(Mount(img)).err = ""}

InitDamaged ==
  /\ Mounted(DamagedImages)
  /\ files = [h \in {"/"} |-> OpenRootDirectory(Mount(image)).file]

NextDamaged == Tick \/ DoCheckIntegrity

SpecDamaged == InitDamaged /\ [][NextDamaged]_vars

----------------------------------------------------------------------------
(* Mounting and unmounting: src/ext2/fs/filesystem.py, src/ext2/disk/device.py *)

\* the filesystem object and its device
Fs == [sb |-> sb, bgdt |-> bgdt, files |-> files, isMounted |-> isMounted, isValid |-> isValid]

\* what the attributes hold before the first mount (they are not set)
NoFile == [name |-> RootName,
           inode |-> [number |-> 0, isUsed |-> FALSE, mode |-> 0, size |-> 0, numLinks |-> 0,
                      blocks |-> NoBlocks],
           numBlocks |-> 0, kind |-> "none", entries |-> <<>>]

NoSuperblock == [numFreeBlocks |-> 0, numFreeInodes |-> 0, timeLastWrite |-> 0, saveCopies |-> TRUE]

NoTable == [g \in Groups |-> [numFreeBlocks |-> 0, numFreeInodes |-> 0, numInodesAsDirs |-> 0]]

\* the state a failure inside the try block of mount leaves: the handler
\* unmounts the device and clears _isValid
Unmounted(fs) == [fs EXCEPT !.isMounted = FALSE, !.isValid = FALSE]

\* mount whose handler leaves the device as it is
MountKeepsDevice(fs, img) ==
  IF ~img.exists THEN [fs |-> fs, err |-> "IOError"]
  ELSE IF ReadSuperblock(img, 0).err # ""
    THEN [fs |-> [fs EXCEPT !.isMounted = TRUE, !.isValid = FALSE], err |-> "FilesystemError"]
  ELSE IF ReadBGDT(img, 0).err # ""
    THEN [fs |-> [fs EXCEPT !.sb = Mount(img).sb, !.isMounted = TRUE, !.isValid = FALSE],
          err |-> "FilesystemError"]
  ELSE
    With(OpenRootDirectory(Mount(img)), LAMBDA root :
      IF root.err # ""
      THEN [fs |-> [fs EXCEPT !.sb = Mount(img).sb, !.bgdt = Mount(img).bgdt,
                              !.isMounted = TRUE, !.isValid = FALSE],
            err |-> "FilesystemError"]
      ELSE [fs |-> [sb |-> Mount(img).sb, bgdt |-> Mount(img).bgdt,
                    files |-> [h \in {"/"} |-> root.file],
                    isMounted |-> TRUE, isValid |-> TRUE],
            err |-> ""])

\* unmount that leaves _isValid as it is
UnmountKeepsValid(fs) == [fs EXCEPT !.isMounted = FALSE]

\* Ext2Filesystem.mount: [fs, err].  The device is opened outside the try
\* block; the superblock and the table that were read stay assigned when a
\* later step fails.
MountFs(fs, img) ==
  IF ~img.exists THEN [fs |-> fs, err |-> "IOError"]
  ELSE IF ReadSuperblock(img, 0).err # "" THEN [fs |-> Unmounted(fs), err |-> "FilesystemError"]
  ELSE IF ReadBGDT(img, 0).err # ""
    THEN [fs |-> Unmounted([fs EXCEPT !.sb = Mount(img).sb]), err |-> "FilesystemError"]
  ELSE
    With(OpenRootDirectory(Mount(img)), LAMBDA root :
      IF root.err # ""
      THEN [fs |-> Unmounted([fs EXCEPT !.sb = Mount(img).sb, !.bgdt = Mount(img).bgdt]),
            err |-> "FilesystemError"]
      ELSE [fs |-> [sb |-> Mount(img).sb, bgdt |-> Mount(img).bgdt,
                    files |-> [h \in {"/"} |-> root.file],
                    isMounted |-> TRUE, isValid |-> TRUE],
            err |-> ""])

\* Ext2Filesystem.unmount with _DeviceFromFile.unmount
UnmountFs(fs) == [fs EXCEPT !.isMounted = FALSE, !.isValid = FALSE]

\* `with fs as root: body`: __exit__ runs when __enter__ returned, whether
\* the body raised or not, and lets the exception of the body through
Scoped(fs, img, bodyRaises) ==
  With(MountFs(fs, img), LAMBDA m :
    IF m.err # "" THEN m
    ELSE [fs |-> UnmountFs(m.fs), err |-> IF bodyRaises THEN "BodyError" ELSE ""])

\* the file is empty, ends before the table, before the inode bitmap, before
\* the inode table, before the block of the root directory, or is whole
MountSizes == {0, firstDataBlockId + 1, inodeBitmapLocation(0), inodeTableLocation(0), 7, FullSize}

WholeImage == MkImage([g \in Groups |-> IF g = 0 THEN <<255, 3>> ELSE <<63, 0>>],
                      [g \in Groups |-> IF g = 0 THEN <<63>> ELSE <<0>>], FullSize)

\* these and no file at all
MountImages ==
  {[WholeImage EXCEPT !.size = size] : size \in MountSizes} \cup {[WholeImage EXCEPT !.exists = FALSE]}

\* Ext2Filesystem.__init__ on a device that is not open
InitUnmounted ==
  /\ image \in MountImages
  /\ sb = NoSuperblock
  /\ bgdt = NoTable
  /\ files = [h \in {"/"} |-> NoFile]
  /\ isMounted = FALSE
  /\ isValid = FALSE
  /\ clock = 0
  /\ steps = 0
  /\ last = NoOp
  /\ prev = NoOp

CommitFs(r, op, arg, ret) ==
  /\ sb' = r.fs.sb
  /\ bgdt' = r.fs.bgdt
  /\ files' = r.fs.files
  /\ isMounted' = r.fs.isMounted
  /\ isValid' = r.fs.isValid
  /\ steps' = steps + 1
  /\ last' = [op |-> op, arg |-> arg, ret |-> ret, err |-> r.err, pre |-> Snapshot]
  /\ prev' = last
  /\ UNCHANGED <<image, clock>>

DoMount ==
  /\ steps < MaxSteps
  /\ \E r \in {MountFs(Fs, image)} : CommitFs(r, "mount", 0, 0)

DoUnmount ==
  /\ steps < MaxSteps
  /\ CommitFs([fs |-> UnmountFs(Fs), err |-> ""], "unmount", 0, 0)

DoScoped ==
  /\ steps < MaxSteps
  /\ \E bodyRaises \in BOOLEAN :
       \E r \in {Scoped(Fs, image, bodyRaises)} : CommitFs(r, "with", bodyRaises, 0)

\* Ext2Filesystem.rootDir, as the other properties that need a mounted filesystem
DoRootDir ==
  /\ steps < MaxSteps
  /\ CommitFs([fs |-> Fs, err |-> IF isValid THEN "" ELSE "FilesystemError"], "rootDir", 0,
              IF isValid THEN files["/"].inode.number ELSE 0)

\* the image file is replaced while no filesystem holds it open
SwapImage ==
  /\ ~isMounted
  /\ image' \in MountImages \ {image}
  /\ UNCHANGED <<sb, bgdt, files, isMounted, isValid, clock, steps, last, prev>>

NextMount == DoMount \/ DoUnmount \/ DoScoped \/ DoRootDir \/ SwapImage

SpecMount == InitUnmounted /\ [][NextMount]_vars

----------------------------------------------------------------------------
(* Writing to the device and reading back *)

InitDevice ==
  /\ Mounted(Images)
  /\ files = [h \in {"/"} |-> OpenRootDirectory(Mount(image)).file]

\* a block of /g, a free block of each group; the start and the middle of a
\* block; one byte, two bytes, a whole block
BlockWrites ==
  {[bid |-> b, offset |-> o, byteString |-> str] :
     b \in {9, 11, 23}, o \in {0, 10}, str \in {<<1>>, <<7, 7>>, [k \in 1 .. blockSize |-> 9]}}

DoWriteToBlock ==
  /\ steps < MaxFileSteps
  /\ \E a \in BlockWrites :
       \E r \in {WriteToBlock(World, a.bid, a.offset, a.byteString, clock)} :
         Commit(r, "writeToBlock", a, 0)
  /\ UNCHANGED <<files, clock>>

\* unmount followed by mount of the same image file
DoRemount ==
  /\ steps < MaxFileSteps
  /\ \E r \in {MountFs(UnmountFs(Fs), image)} : CommitFs(r, "remount", 0, 0)

\* the writable properties of _Superblock that the mounted object carries
SetSuperblockField(w, field, value) ==
  IF field = "numFreeBlocks" THEN SetSbNumFreeBlocks(w, value)
  ELSE IF field = "numFreeInodes" THEN SetSbNumFreeInodes(w, value)
  ELSE SetSbTimeLastWrite(w, value)

\* an assignment to a writable property of the superblock: no free block or
\* inode left, or a count that no image of the model carries
DoSetSuperblockField ==
  /\ steps < MaxFileSteps
  /\ \E field \in SbFields, value \in {0, 40} :
       Commit([w |-> SetSuperblockField(World, field, value), err |-> ""],
              "setSuperblockField", [field |-> field, value |-> value], 0)
  /\ UNCHANGED <<files, clock>>

\* the writable properties of _BGDTEntry: [w, err]
SetBgdtField(w, g, field, value, t) ==
  IF field = "numFreeBlocks" THEN SetBgdtNumFreeBlocks(w, g, value, t)
  ELSE IF field = "numFreeInodes" THEN SetBgdtNumFreeInodes(w, g, value, t)
  ELSE SetBgdtNumInodesAsDirs(w, g, value, t)

\* an assignment to a writable property of an entry of the table
DoSetBgdtField ==
  /\ steps < MaxFileSteps
  /\ \E g \in Groups, field \in BgdtFields, value \in {0, 3} :
       \E r \in {SetBgdtField(World, g, field, value, clock)} :
         Commit(r, "setBgdtField", [g |-> g, field |-> field, value |-> value], 0)
  /\ UNCHANGED <<files, clock>>

\* the caller sets or clears _saveCopies of the superblock
DoSetSaveCopies ==
  /\ steps < MaxFileSteps
  /\ \E flag \in BOOLEAN :
       Commit([w |-> [World EXCEPT !.sb.saveCopies = flag], err |-> ""], "setSaveCopies", flag, 0)
  /\ UNCHANGED <<files, clock>>

NextDevice ==
  Tick \/ DoWriteToBlock \/ DoRemount \/ DoSetSuperblockField \/ DoSetBgdtField \/ DoSetSaveCopies

SpecDevice == InitDevice /\ [][NextDevice]_vars

----------------------------------------------------------------------------
(* Free counts and bitmaps *)

\* the free counts of every group equal the zero bits of its bitmaps
CountsMatchBitmaps(table, blockBitmaps, inodeBitmaps) ==
  \A g \in Groups :
    /\ table[g].numFreeBlocks = ZeroBits(blockBitmaps[g])
    /\ table[g].numFreeInodes = ZeroBits(inodeBitmaps[g])

\* the block's bit in the block bitmaps
BlockBit(blockBitmaps, bid) ==
  LET idx == bid - firstDataBlockId
  IN TestBit(blockBitmaps[idx \div numBlocksPerGroup][((idx % numBlocksPerGroup) \div 8) + 1], idx % 8)

\* the operation performed last is one of those the claim is about
AllocOrFreeOfAllocated ==
  \/ last.op \in {"allocateBlock", "allocateInode"}
  \/ /\ last.op = "freeBlock"
     /\ last.arg \in BlockIds
     /\ BlockBit(last.pre.image.blockBitmap, last.arg) = 1

\* C1: the free-block and free-inode count of every group equals the number
\* of zero bits of the group's bitmap after allocate_block, allocate_inode and
\* free_block of an allocated block, whenever it did before the operation.
C1_CountsEqualZeroBits ==
  (/\ AllocOrFreeOfAllocated
   /\ last.err = ""
   /\ CountsMatchBitmaps(last.pre.bgdt, last.pre.image.blockBitmap, last.pre.image.inodeBitmap))
  => CountsMatchBitmaps(bgdt, image.blockBitmap, image.inodeBitmap)

GroupSum(table, field) == SeqSum([k \in 1 .. numBlockGroups |-> table[k - 1][field]])

\* C2: the superblock's free-block count is the sum of the groups' free-block
\* counts and its free-inode count the sum of the groups' free-inode counts,
\* in the mounted objects, after every operation.
C2_SuperblockIsSumOfGroups ==
  /\ sb.numFreeBlocks = GroupSum(bgdt, "numFreeBlocks")
  /\ sb.numFreeInodes = GroupSum(bgdt, "numFreeInodes")

\* a block and an inode were allocated and a block was freed, all with success
C2_Witness ==
  /\ steps = 3
  /\ last.op = "freeBlock" /\ last.err = ""
  /\ prev.op = "allocateInode" /\ prev.err = ""
  /\ sb.numFreeBlocks = prev.pre.sb.numFreeBlocks + 1
  /\ sb.numFreeInodes = prev.pre.sb.numFreeInodes - 1

\* C4: free_block of the block that the allocate_block just before returned
\* succeeds and restores the superblock's count, every group's count and the
\* block's bitmap bit to what they were before the allocation.
C4_AllocateThenFreeRestores ==
  (/\ last.op = "freeBlock"
   /\ prev.op = "allocateBlock" /\ prev.err = ""
   /\ last.arg = prev.ret)
  => /\ last.err = ""
     /\ sb.numFreeBlocks = prev.pre.sb.numFreeBlocks
     /\ \A g \in Groups : bgdt[g].numFreeBlocks = prev.pre.bgdt[g].numFreeBlocks
     /\ BlockBit(image.blockBitmap, last.arg) = BlockBit(prev.pre.image.blockBitmap, last.arg)

\* a block of the second group was allocated and then freed
C4_Witness ==
  /\ last.op = "freeBlock" /\ last.err = ""
  /\ prev.op = "allocateBlock" /\ prev.err = ""
  /\ last.arg = prev.ret
  /\ last.arg > numBlocksPerGroup

----------------------------------------------------------------------------
(* Blocks of the open files *)

\* the block ids that the inode of an open file enumerates
UsedBlocksOf(h) == GetUsedBlocks(image, files[h].inode)

\* C3: after make_directory, append and write on a clean image, every block id
\* that the inode of a file enumerates as used is marked in the block bitmap of
\* its group and is enumerated by no other inode.
C3_UsedBlocksMarkedAndUnique ==
  \A h \in DOMAIN files : \A k \in 1 .. Len(UsedBlocksOf(h)) :
    LET bid == UsedBlocksOf(h)[k]
    IN /\ bid \in BlockIds
       /\ BlockBit(image.blockBitmap, bid) = 1
       /\ \A h2 \in DOMAIN files \ {h} : \A j \in 1 .. Len(UsedBlocksOf(h2)) : UsedBlocksOf(h2)[j] # bid

----------------------------------------------------------------------------
(* Writing and reading back *)

RECURSIVE Concat(_)
Concat(seqs) == IF seqs = <<>> THEN <<>> ELSE Head(seqs) \o Concat(Tail(seqs))

\* a block-wise read of a file as it is found in its directory now
ReadBack(h) ==
  LET dir == IF h = "/a/b" THEN files["/a"] ELSE files["/"]
      name == IF h = "/f" THEN NameF ELSE IF h = "/g" THEN NameG ELSE NameB
  IN Concat(Blocks(World, GetFileAt(World, dir, name).file).blocks)

\* C5: write(b) on a regular file whose data stays within the direct blocks
\* increases the size of the file by len(b), and a block-wise read then yields
\* the previous content followed by b.
C5_WriteAppendsAllBytes ==
  (/\ last.op = "write"
   /\ last.err = ""
   /\ last.pre.files[last.arg.h].inode.size + Len(last.arg.byteString) <= numDirectBlocks * blockSize)
  => LET h == last.arg.h
         before == last.pre.files[h]
         was == Concat(Blocks([image |-> last.pre.image, sb |-> last.pre.sb, bgdt |-> last.pre.bgdt],
                              before).blocks)
     IN /\ files[h].inode.size = before.inode.size + Len(last.arg.byteString)
        /\ ReadBack(h) = was \o last.arg.byteString

----------------------------------------------------------------------------
(* Directory entries *)

EntryNames(entries) == [k \in 1 .. Len(entries) |-> entries[k].name]

EntryInodes(entries) == [k \in 1 .. Len(entries) |-> entries[k].inodeNum]

\* the entry list of the directory of an open file, read again from the device
Reread(h) == OpenEntry(World, files[h].name, files[h].inode.number).file.entries

\* C6: append(name, inode) with a name of 1 to 255 bytes on the entry list of
\* a directory, blocks being free, leaves a list that is the previous list
\* followed by one entry of that name and inode number, both in the list
\* itself and in the list read again from the device.
C6_AppendAddsLastEntry ==
  (/\ last.op = "append"
   /\ Len(last.arg.name) \in 1 .. 255
   /\ last.pre.sb.numFreeBlocks > 0)
  => LET h == last.arg.h
         before == last.pre.files[h].entries
     IN /\ last.err = ""
        /\ EntryNames(files[h].entries) = Append(EntryNames(before), last.arg.name)
        /\ EntryInodes(files[h].entries) = Append(EntryInodes(before), last.arg.inodeNum)
        /\ EntryNames(Reread(h)) = Append(EntryNames(before), last.arg.name)
        /\ EntryInodes(Reread(h)) = Append(EntryInodes(before), last.arg.inodeNum)

\* C7: make_directory with a new name in a directory D, an inode and blocks
\* being free, succeeds; D then has one more entry, get_file_at(name) from D
\* finds the new directory, whose entries are "." and ".." in that order, one
\* group counts one more directory inode and the superblock one free inode less.
C7_MakeDirectoryPostState ==
  (/\ last.op = "makeDirectory"
   /\ ~IsBlank(last.arg.name)
   /\ \A k \in 1 .. Len(last.arg.name) : last.arg.name[k] # Slash
   /\ \A k \in 1 .. Len(last.pre.files[last.arg.h].entries) :
        last.pre.files[last.arg.h].entries[k].name # last.arg.name
   /\ last.pre.sb.numFreeInodes > 0
   /\ last.pre.sb.numFreeBlocks > 1)
  => LET h == last.arg.h
         found == GetFileAt(World, files[h], last.arg.name)
     IN /\ last.err = ""
        /\ Len(files[h].entries) = Len(last.pre.files[h].entries) + 1
        /\ found.err = ""
        /\ found.file.kind = "dir"
        /\ EntryNames(found.file.entries) = <<<<Dot>>, <<Dot, Dot>>>>
        /\ \E g \in Groups :
             /\ bgdt[g].numInodesAsDirs = last.pre.bgdt[g].numInodesAsDirs + 1
             /\ \A g2 \in Groups \ {g} : bgdt[g2].numInodesAsDirs = last.pre.bgdt[g2].numInodesAsDirs
        /\ sb.numFreeInodes = last.pre.sb.numFreeInodes - 1

----------------------------------------------------------------------------
(* Path lookup *)

\* every part names an entry of the directory that the parts before it lead to
RECURSIVE Resolves(_, _, _)
Resolves(w, dir, parts) ==
  IF parts = <<>> THEN TRUE
  ELSE /\ dir.kind = "dir"
       /\ \E k \in 1 .. Len(dir.entries) : dir.entries[k].name = Head(parts)
       /\ LET k == FirstIndex(dir.entries, LAMBDA e : e.name = Head(parts))
              o == OpenEntry(w, dir.entries[k].name, dir.entries[k].inodeNum)
          IN o.err = "" /\ Resolves(w, o.file, Tail(parts))

\* C8: get_file_at of a path with a component returns a file only when every
\* component names an entry of the directory reached through the components
\* before it, and fails with FileNotFound otherwise.
C8_LookupFailsOnMissingComponent ==
  (/\ last.op = "getFileAt"
   /\ PathParts(last.arg.relativePath) # <<<<>>>>)
  => IF Resolves(World, files[last.arg.h], PathParts(last.arg.relativePath))
     THEN last.err = ""
     ELSE last.err = "FileNotFoundError"

----------------------------------------------------------------------------
(* The integrity check *)

\* C9: on a filesystem mounted from a clean image, check_integrity returns a
\* report without messages after any sequence of make_directory,
\* make_regular_file and write.
C9_CheckStaysClean ==
  last.op = "checkIntegrity" => (last.err = "" /\ last.ret = 0)

\* C10: on a mounted image, however damaged, check_integrity returns a report
\* and does not fail with an error.
C10_CheckNeverFails ==
  last.op = "checkIntegrity" => last.err = ""

----------------------------------------------------------------------------
(* Mounting and unmounting *)

\* one of the steps of mount fails on the image
MountStepFails(img) ==
  \/ ReadSuperblock(img, 0).err # ""
  \/ ReadBGDT(img, 0).err # ""
  \/ OpenRootDirectory(Mount(img)).err # ""

\* C11: when reading the superblock, reading the table or opening the root
\* directory fails, mount reports an error and leaves the device closed and
\* the filesystem invalid; the device is closed after `with`, whether the
\* mount failed, the body raised or the body returned.
C11_FailedMountReleasesDevice ==
  /\ (last.op = "mount" /\ last.pre.image.exists /\ MountStepFails(last.pre.image))
       => (last.err = "FilesystemError" /\ ~isMounted /\ ~isValid)
  /\ last.op = "with" => ~isMounted

\* a mount failed at the root directory, then the body of a `with` on a whole
\* image raised
C11_Witness ==
  /\ prev.op = "mount" /\ prev.err = "FilesystemError"
  /\ ReadBGDT(prev.pre.image, 0).err = ""
  /\ last.op = "with" /\ last.arg = TRUE /\ last.err = "BodyError"

\* C12: the filesystem is valid only while the device is open; after unmount
\* it is invalid and the device closed, rootDir fails until a mount has
\* succeeded, and an unmount after an unmount changes nothing.
C12_ValidOnlyWhileOpen ==
  /\ isValid => isMounted
  /\ last.op = "unmount" => (~isValid /\ ~isMounted)
  /\ (/\ last.op = "rootDir"
      /\ \/ prev.op \in {"none", "unmount", "with"}
         \/ prev.op = "mount" /\ prev.err # "")
       => last.err = "FilesystemError"
  /\ (last.op = "unmount" /\ prev.op = "unmount")
       => Fs = [sb |-> last.pre.sb, bgdt |-> last.pre.bgdt, files |-> last.pre.files,
                isMounted |-> last.pre.isMounted, isValid |-> last.pre.isValid]

\* a mounted filesystem was unmounted and rootDir was read
C12_Witness ==
  /\ last.op = "rootDir" /\ last.err = "FilesystemError"
  /\ prev.op = "unmount" /\ prev.pre.isValid /\ prev.pre.isMounted

----------------------------------------------------------------------------
(* Writing to the device and reading back *)

\* the bytes that a read of the device returns at the place of a write
ReadAt(a) == ReadData(image, a.bid, a.offset, Len(a.byteString))

\* C13: after a write to the device, a read of the same place and length
\* returns the bytes written, also after unmount and a new mount.
C13_ReadReturnsWrittenBytes ==
  /\ (last.op = "writeToBlock" /\ last.err = "") => ReadAt(last.arg) = last.arg.byteString
  /\ (last.op = "remount" /\ last.err = "" /\ prev.op = "writeToBlock" /\ prev.err = "")
       => ReadAt(prev.arg) = prev.arg.byteString

----------------------------------------------------------------------------
(* The superblock on the device *)

\* C14: after an assignment to a writable field of the superblock, the
\* superblock read from the primary copy carries the value assigned, and with
\* _saveCopies set so does the copy of every group that holds one.
C14_SuperblockFieldPersists ==
  last.op = "setSuperblockField" =>
    /\ ReadSuperblock(image, 0).sb[last.arg.field] = last.arg.value
    /\ sb.saveCopies =>
         \A c \in copyLocations : ReadSuperblock(image, c).sb[last.arg.field] = last.arg.value

----------------------------------------------------------------------------
(* The table on the device *)

\* the value of the entry's field in the table read at a group
FieldAt(c, a) == ReadBGDT(image, c).entries[a.g][a.field]

\* C15: after an assignment to a count of an entry of the table, with
\* _saveCopies set the table read at every group that holds a copy carries the
\* value of the mounted table; with _saveCopies cleared the table read at
\* group 0 carries it and the other copies are as they were.
C15_TableCopiesFollowPrimary ==
  (last.op = "setBgdtField" /\ last.err = "") =>
    IF last.pre.sb.saveCopies
    THEN \A c \in copyLocations : FieldAt(c, last.arg) = bgdt[last.arg.g][last.arg.field]
    ELSE /\ FieldAt(0, last.arg) = bgdt[last.arg.g][last.arg.field]
         /\ \A c \in copyLocations \ {0} : image.bgdt[c] = last.pre.image.bgdt[c]

----------------------------------------------------------------------------
(* Record lengths in directory blocks *)

\* the ids of the data blocks of an open directory, by its inode
DirBlockIds(h) ==
  {LookupBlockId(image, files[h].inode, i).ret :
     i \in 0 .. (((files[h].inode.size + blockSize - 1) \div blockSize) - 1)}

\* the entries of the block, each of a length that is a multiple of 4, follow
\* one another up to the end of the block
RecLensFillBlock(bid) ==
  \E r \in {ParseBlock(ReadData(image, bid, 0, blockSize), 0, bid, 0, <<>>)} :
    /\ r.err = ""
    /\ \A k \in 1 .. Len(r.entries) : r.entries[k].size % 4 = 0
    /\ SeqSum([k \in 1 .. Len(r.entries) |-> r.entries[k].size]) = blockSize

\* C16: after any sequence of appends, in every data block of a directory
\* every entry's record length is a multiple of 4 and reaches the next entry
\* or the end of the block: the record lengths of a block sum to the block size.
C16_RecLensSumToBlockSize ==
  (last.op = "append" /\ prev.op \in {"none", "append"}) =>
    \A h \in {"/", "/a"} : \A bid \in DirBlockIds(h) : RecLensFillBlock(bid)

----------------------------------------------------------------------------
(* Free-block counts and the block bitmaps *)

\* C17: after any sequence of allocate_block and free_block, free_block being
\* called with any block id, the free-block count of every group is between 0
\* and the number of blocks of a group, and the count of a group changes only
\* when the block bitmap of the group changes.
C17_CountsBoundedAndPairedWithBits ==
  /\ \A g \in Groups : bgdt[g].numFreeBlocks \in 0 .. numBlocksPerGroup
  /\ last.op \in {"allocateBlock", "freeBlock"} =>
       \A g \in Groups :
         bgdt[g].numFreeBlocks # last.pre.bgdt[g].numFreeBlocks
           => image.blockBitmap[g] # last.pre.image.blockBitmap[g]

----------------------------------------------------------------------------
(* Inode allocation on images whose inode bitmap leaves a reserved inode clear *)

\* group 0 with inode 1, inode 2, inode 3 or none of inodes 1..6 unmarked
ReservedClearInodeBitmaps ==
  {[g \in Groups |-> IF g = 0 THEN <<i0>> ELSE <<0>>] : i0 \in {62, 61, 59, 63}}

ReservedClearImages ==
  {MkImage(bb, ib, FullSize) : bb \in InitBlockBitmaps, ib \in ReservedClearInodeBitmaps}

InitReservedClear ==
  /\ Mounted(ReservedClearImages)
  /\ files = OpenAll(Mount(image))

NextReservedClear == Tick \/ DoAllocateInode \/ DoAllocateBlock \/ DoFreeBlock

SpecReservedClear == InitReservedClear /\ [][NextReservedClear]_vars

\* C18: an inode number returned by allocate_inode is never below the
\* superblock's first inode index, whatever bits the inode bitmap has clear.
C18_AllocatedInodeNotReserved ==
  (last.op = "allocateInode" /\ last.err = "") => last.ret >= firstInode

----------------------------------------------------------------------------
(* allocate_block and the no-space error *)

\* the groups whose free-block count is above 0 and whose bitmap has a clear bit
GroupsWithFreeBlock(snap) ==
  {g \in Groups : /\ snap.bgdt[g].numFreeBlocks > 0
                  /\ ZeroBits(snap.image.blockBitmap[g]) > 0}

\* C19: allocate_block fails with the no-space error, changing no bitmap, no
\* free count and no data block, when no group has a free-block count above 0,
\* and it succeeds when some group has a free block.
C19_NoSpaceOnlyWhenNoGroupHasFree ==
  last.op = "allocateBlock" =>
    /\ (\A g \in Groups : last.pre.bgdt[g].numFreeBlocks <= 0) =>
         /\ last.err = "No free blocks."
         /\ image = last.pre.image
         /\ bgdt = last.pre.bgdt
         /\ sb = last.pre.sb
    /\ GroupsWithFreeBlock(last.pre) # {} => last.err = ""

----------------------------------------------------------------------------
(* The number of block groups: src/ext2/disk/superblock.py, src/ext2/disk.py *)

MaxNumBlocks == 40
MaxBlocksPerGroup == 17

\* int(ceil(num_blocks / num_blocks_per_group)): both operands are integers, so
\* the quotient is the integer floor of the division before ceil sees it, and
\* ceil leaves an integer as it is
NumBlockGroups(numBlocks, perGroup) ==
  IF perGroup > 0 THEN numBlocks \div perGroup ELSE 0

\* the superblocks of an image with the given block counts
WithGeometry(img, numBlocks, perGroup) ==
  [img EXCEPT !.sb = [c \in copyLocations |->
                        [numFreeBlocks |-> img.sb[c].numFreeBlocks,
                         numFreeInodes |-> img.sb[c].numFreeInodes,
                         timeLastWrite |-> img.sb[c].timeLastWrite,
                         numBlocks |-> numBlocks,
                         numBlocksPerGroup |-> perGroup]]]

GeometryImages ==
  {WithGeometry(WholeImage, n, per) : n \in 0 .. MaxNumBlocks, per \in 0 .. MaxBlocksPerGroup}

InitGeometry ==
  /\ Mounted(GeometryImages)
  /\ files = [h \in {"/"} |-> OpenRootDirectory(Mount(image)).file]

\* _Superblock.__init__ on the bytes of the primary superblock
DoReadNumBlockGroups ==
  /\ steps < MaxSteps
  /\ steps' = steps + 1
  /\ last' = [op |-> "numBlockGroups", arg |-> 0,
              ret |-> NumBlockGroups(image.sb[0].numBlocks, image.sb[0].numBlocksPerGroup),
              err |-> "", pre |-> Snapshot]
  /\ prev' = last
  /\ UNCHANGED <<image, sb, bgdt, files, isMounted, isValid, clock>>

NextGeometry == Tick \/ DoReadNumBlockGroups

SpecGeometry == InitGeometry /\ [][NextGeometry]_vars

\* the groups needed to hold the blocks, a partial last group counting as one
CeilingOfQuotient(numBlocks, perGroup) == (numBlocks + perGroup - 1) \div perGroup

\* C20: the number of block groups derived from the superblock is the ceiling
\* of num_blocks / blocks_per_group when blocks_per_group is above 0, and 0
\* when blocks_per_group is 0.
C20_NumBlockGroupsIsCeiling ==
  last.op = "numBlockGroups" =>
    \E s \in {last.pre.image.sb[0]} :
      last.ret = IF s.numBlocksPerGroup > 0
                 THEN CeilingOfQuotient(s.numBlocks, s.numBlocksPerGroup)
                 ELSE 0

----------------------------------------------------------------------------
(* The groups that carry copies of the superblock: src/ext2/disk/superblock.py *)

MaxCopyBlocks == 50

RECURSIVE PowersAppended(_, _, _)
\* last3 = 3; while last3 < num_block_groups: append(last3); last3 *= 3
PowersAppended(cur, base, numGroups) ==
  IF cur < numGroups
  THEN <<cur>> \o PowersAppended(cur * base, base, numGroups)
  ELSE <<>>

\* the list left by the loops without the final sort
CopyBlockGroupIdsUnsorted(revLevel, numGroups) ==
  IF revLevel = 0 THEN [k \in 1 .. numGroups |-> k - 1]
  ELSE IF numGroups > 1
       THEN <<0, 1>> \o PowersAppended(3, 3, numGroups) \o PowersAppended(7, 7, numGroups)
       ELSE <<0>>

\* _Superblock.__init__: range(num_block_groups) for revision 0, else 0, then
\* 1 and the powers of 3 and of 7 when there is more than one group, sorted
CopyBlockGroupIds(revLevel, numGroups) ==
  IF revLevel = 0 THEN [k \in 1 .. numGroups |-> k - 1]
  ELSE IF numGroups > 1
       THEN SortSeq(<<0, 1>> \o PowersAppended(3, 3, numGroups) \o PowersAppended(7, 7, numGroups),
                    LAMBDA a, b : a < b)
       ELSE <<0>>

\* the fields of the superblock object that are derived when it is read
DerivedFields(s) ==
  With(NumBlockGroups(s.numBlocks, s.numBlocksPerGroup), LAMBDA n :
    [revLevel |-> s.revLevel, numBlockGroups |-> n,
     copyBlockGroupIds |-> CopyBlockGroupIds(s.revLevel, n)])

WithRevision(img, revLevel) ==
  [img EXCEPT !.sb = [c \in copyLocations |->
                        [numFreeBlocks |-> img.sb[c].numFreeBlocks,
                         numFreeInodes |-> img.sb[c].numFreeInodes,
                         timeLastWrite |-> img.sb[c].timeLastWrite,
                         numBlocks |-> img.sb[c].numBlocks,
                         numBlocksPerGroup |-> img.sb[c].numBlocksPerGroup,
                         revLevel |-> revLevel]]]

CopyGroupImages ==
  {WithRevision(WithGeometry(WholeImage, n, per), rev) :
     n \in 0 .. MaxCopyBlocks, per \in 0 .. 2, rev \in 0 .. 1}

\* the superblock object of Mount with its derived fields
SuperblockOf(img) ==
  [numFreeBlocks |-> img.sb[0].numFreeBlocks,
   numFreeInodes |-> img.sb[0].numFreeInodes,
   timeLastWrite |-> img.sb[0].timeLastWrite,
   saveCopies |-> TRUE,
   derived |-> DerivedFields(img.sb[0])]

InitCopyGroups ==
  /\ image \in CopyGroupImages
  /\ sb = SuperblockOf(image)
  /\ bgdt = Mount(image).bgdt
  /\ files = [h \in {"/"} |-> OpenRootDirectory(Mount(image)).file]
  /\ isMounted = TRUE
  /\ isValid = TRUE
  /\ clock = 0
  /\ steps = 0
  /\ last = NoOp
  /\ prev = NoOp

\* _Superblock.read: a new superblock object from the bytes on the device
DoReadSuperblock ==
  /\ steps < MaxSteps
  /\ steps' = steps + 1
  /\ sb' = SuperblockOf(image)
  /\ last' = [op |-> "readSuperblock", arg |-> 0,
              ret |-> Len(SuperblockOf(image).derived.copyBlockGroupIds),
              err |-> "", pre |-> Snapshot]
  /\ prev' = last
  /\ UNCHANGED <<image, bgdt, files, isMounted, isValid, clock>>

NextCopyGroups == Tick \/ DoReadSuperblock

SpecCopyGroups == InitCopyGroups /\ [][NextCopyGroups]_vars

RECURSIVE IsPowerOf(_, _)
IsPowerOf(base, p) ==
  p = 1 \/ (p > 1 /\ p % base = 0 /\ IsPowerOf(base, p \div base))

\* {0, 1}, the powers of 3 below the count and the powers of 7 below the count
CopyGroupsOfStatement(numGroups) ==
  {0, 1} \cup {p \in 1 .. (numGroups - 1) : IsPowerOf(3, p) \/ IsPowerOf(7, p)}

Ascending(list) == \A k \in 1 .. (Len(list) - 1) : list[k] < list[k + 1]

Elements(list) == {list[k] : k \in 1 .. Len(list)}

\* C21 as stated: for revision >= 1 the copy-bearing groups are exactly {0, 1}
\* with the powers of 3 and of 7 below the group count, ascending and without
\* duplicates, for any number of groups; for revision 0 they are 0 .. groups - 1.
C21_CopyGroupsAsStated ==
  \E d \in {sb.derived} :
    /\ Ascending(d.copyBlockGroupIds)
    /\ Elements(d.copyBlockGroupIds) =
         IF d.revLevel = 0 THEN 0 .. (d.numBlockGroups - 1)
         ELSE CopyGroupsOfStatement(d.numBlockGroups)

\* C21: for revision >= 1 the copy-bearing groups are group 0 alone when there
\* is at most one group, and otherwise {0, 1} with the powers of 3 and of 7
\* below the group count, ascending and without duplicates; for revision 0
\* they are 0 .. groups - 1.
C21_CopyGroups ==
  \E d \in {sb.derived} :
    /\ Ascending(d.copyBlockGroupIds)
    /\ Elements(d.copyBlockGroupIds) =
         IF d.revLevel = 0 THEN 0 .. (d.numBlockGroups - 1)
         ELSE IF d.numBlockGroups <= 1 THEN {0}
         ELSE CopyGroupsOfStatement(d.numBlockGroups)

\* a revision-1 superblock of 50 groups has been read again: 0 1 3 7 9 27 49
C21_Witness ==
  /\ last.op = "readSuperblock"
  /\ sb.derived.revLevel = 1
  /\ sb.derived.numBlockGroups = 50
  /\ sb.derived.copyBlockGroupIds = <<0, 1, 3, 7, 9, 27, 49>>

----------------------------------------------------------------------------
(* Opening entries whose inodes carry each of the file types *)

\* FIFO, character device, directory, block device, regular file, symbolic
\* link and socket: the type in the top four bits of the 16-bit mode
TypeCodes == {1, 2, 4, 6, 8, 10, 12}

TypedModes == {code * 4096 + perm : code \in TypeCodes, perm \in {420, 493}}

\* the images whose inode 4 (the entry f of the root directory) has the mode
TypedImages ==
  {[WholeImage EXCEPT !.inodes[4].mode = mode, !.inodes[4].size = size] :
     mode \in TypedModes, size \in {0, 6}}

InitTyped ==
  /\ Mounted(TypedImages)
  /\ files = [h \in {"/"} |-> OpenRootDirectory(Mount(image)).file]

\* Ext2Directory._openEntry on the entry f of the root directory
DoOpenEntry ==
  /\ steps < MaxSteps
  /\ \E r \in {OpenEntry(World, NameF, 4)} :
       /\ Commit([w |-> World, err |-> r.err], "openEntry", 4,
                 IF r.err = "" THEN r.file.inode.mode ELSE 0)
       /\ files' = IF r.err = "" THEN ("/f" :> r.file) @@ files ELSE files
  /\ UNCHANGED clock

NextTyped == Tick \/ DoOpenEntry

SpecTyped == InitTyped /\ [][NextTyped]_vars

TypeCodeOf(mode) == (mode \div 4096) % 16

\* C22: an entry opens as a directory exactly when the type of its inode mode
\* is 0x4000, as a regular file exactly when it is 0x8000, as a symlink exactly
\* when it is 0xA000, and as none of the three for a character device, block
\* device, FIFO or socket.
C22_ClassFollowsTypeBits ==
  (last.op = "openEntry" /\ last.err = "") =>
    \E code \in {TypeCodeOf(last.pre.image.inodes[4].mode)} :
      files["/f"].kind = IF code = 4 THEN "dir"
                         ELSE IF code = 8 THEN "regular"
                         ELSE IF code = 10 THEN "symlink"
                         ELSE "file"

----------------------------------------------------------------------------
(* What allocate_block returns and changes *)

\* the lowest group whose free-block count is above 0
LowestGroupWithCount(snap) == SetMin({g \in Groups : snap.bgdt[g].numFreeBlocks > 0})

\* the position in the group's bitmap of its lowest zero bit
LowestZeroBit(bitmap) ==
  SetMin({k \in 0 .. (Len(bitmap) * 8 - 1) : TestBit(bitmap[(k \div 8) + 1], k % 8) = 0})

\* C23: a successful allocate_block returns the block of the lowest zero bit of
\* the bitmap of the lowest group with a free-block count above 0, sets that
\* one bit and no other, lowers the superblock's and that group's free-block
\* count by 1, and when zeroing is asked for leaves every byte of the block 0
\* and every other block's data unchanged.
C23_AllocateBlockEffect ==
  (last.op = "allocateBlock" /\ last.err = "") =>
    \E g \in {LowestGroupWithCount(last.pre)} :
      \E k \in {LowestZeroBit(last.pre.image.blockBitmap[g])} :
        /\ last.ret = g * numBlocksPerGroup + k + firstDataBlockId
        /\ image.blockBitmap =
             [last.pre.image.blockBitmap EXCEPT ![g][(k \div 8) + 1] = OrBit(@, k % 8)]
        /\ BlockBit(image.blockBitmap, last.ret) = 1
        /\ sb.numFreeBlocks = last.pre.sb.numFreeBlocks - 1
        /\ bgdt = [last.pre.bgdt EXCEPT ![g].numFreeBlocks = @ - 1]
        /\ last.arg => ReadData(image, last.ret, 0, blockSize) = Zeros(blockSize)
        /\ \A bid \in (DOMAIN image.data) \ {last.ret} :
             image.data[bid] = last.pre.image.data[bid]

----------------------------------------------------------------------------
(* The block tree of an inode: src/ext2/disk/inode.py *)

MaxTreeSteps == 1

\* a block holding the 0-based list of ids
IdBlock(ids) ==
  [b \in 1 .. blockSize |-> LE32(ids[(b - 1) \div 4])[((b - 1) % 4) + 1]]

\* a list of data block ids of which the first n are not 0
LeafIds(bid, n) == [k \in 0 .. (numIdsPerBlock - 1) |-> IF k < n THEN 100 * bid + k + 1 ELSE 0]

\* a list that names the blocks even and odd in turn, n ids not 0
TurnIds(even, odd, n) ==
  [k \in 0 .. (numIdsPerBlock - 1) |-> IF k >= n THEN 0 ELSE IF k % 2 = 0 THEN even ELSE odd]

\* blocks 11..22 direct, 23 the indirect block, 24 the double-indirect block
\* over the lists 26 and 27, 25 the triple-indirect block over the lists 28 and
\* 29, which stand over the lists 30 and 31
TreeData(single, double, triple) ==
  (23 :> IdBlock(LeafIds(23, single))) @@
  (24 :> IdBlock(TurnIds(26, 27, double))) @@
  (25 :> IdBlock(TurnIds(28, 29, IF triple = "full" THEN numIdsPerBlock ELSE 2))) @@
  (26 :> IdBlock(LeafIds(26, numIdsPerBlock))) @@
  (27 :> IdBlock(LeafIds(27, IF double = 2 THEN 5 ELSE numIdsPerBlock))) @@
  (28 :> IdBlock(IF triple = "hole"
                 THEN [k \in 0 .. (numIdsPerBlock - 1) |-> IF k = 0 THEN 30 ELSE IF k = 2 THEN 31 ELSE 0]
                 ELSE TurnIds(30, 31, IF triple = "full" THEN numIdsPerBlock ELSE 2))) @@
  (29 :> IdBlock(TurnIds(31, 30, IF triple = "full" THEN numIdsPerBlock ELSE 1))) @@
  (30 :> IdBlock(LeafIds(30, numIdsPerBlock))) @@
  (31 :> IdBlock(LeafIds(31, 4)))

\* the block array of inode 4 over that tree
TreeBlocks(direct, double, triple) ==
  [k \in 0 .. 14 |->
     IF k < 12 THEN (IF k < direct THEN 11 + k ELSE 0)
     ELSE IF k = 12 THEN 23
     ELSE IF k = 13 THEN (IF double = 0 THEN 0 ELSE 24)
     ELSE IF triple = "none" THEN 0 ELSE 25]

TreeImages ==
  {[WholeImage EXCEPT !.data = TreeData(single, double, triple) @@ @,
                      !.inodes[4].blocks = TreeBlocks(direct, double, triple),
                      !.inodes[4].size = numTreblyIndirectBlocks * blockSize] :
     direct \in {5, 12}, single \in {3, numIdsPerBlock}, double \in {0, 2, numIdsPerBlock},
     triple \in {"none", "two", "hole", "full"}}

InitTree ==
  /\ Mounted(TreeImages)
  /\ files = [h \in {"/f"} |-> OpenEntry(Mount(image), NameF, 4).file]

\* the logical block indexes looked up: the ends of every range and some inside
LookupIndexes ==
  {0, 4, 11, 12, 14, 27, 28, 29, 44, 45, 283, 284, 285, 300, 301, 540, 541, 4379, 4380, 4500}

DoLookupBlockId ==
  /\ steps < MaxTreeSteps
  /\ \E index \in LookupIndexes :
       \E r \in {LookupBlockId(image, files["/f"].inode, index)} :
         Commit([w |-> World, err |-> r.err], "lookupBlockId", index, r.ret)
  /\ UNCHANGED <<files, clock>>

NextTree == Tick \/ DoLookupBlockId

SpecTree == InitTree /\ [][NextTree]_vars

\* entry k of the id list held in block bid of the device
IdAt(bid, k) == UnLE32(ReadData(image, bid, 0, blockSize), 4 * k)

\* C24: with IDS ids in a block, lookup_block(i) is blocks[i] for i < 12, entry
\* i - 12 of block blocks[12] for the next IDS indexes, for the next IDS^2
\* indexes entry j mod IDS of the block named by entry j / IDS of blocks[13],
\* for the next IDS^3 indexes the entry reached through three levels from
\* blocks[14], and an out-of-range failure from 12 + IDS + IDS^2 + IDS^3 on.
C24_LookupFollowsTree ==
  last.op = "lookupBlockId" =>
    \E i \in {last.arg}, blocks \in {files["/f"].inode.blocks}, IDS \in {blockSize \div 4} :
      IF i < 12 THEN last.err = "" /\ last.ret = blocks[i]
      ELSE IF i < 12 + IDS
        THEN last.err = "" /\ last.ret = IdAt(blocks[12], i - 12)
      ELSE IF i < 12 + IDS + IDS * IDS
        THEN \E j \in {i - 12 - IDS} :
               last.err = "" /\ last.ret = IdAt(IdAt(blocks[13], j \div IDS), j % IDS)
      ELSE IF i < 12 + IDS + IDS * IDS + IDS * IDS * IDS
        THEN \E j \in {i - 12 - IDS - IDS * IDS} :
               /\ last.err = ""
               /\ last.ret = IdAt(IdAt(IdAt(blocks[14], j \div (IDS * IDS)),
                                       (j \div IDS) % IDS), j % IDS)
      ELSE last.err = "Block not found."

\* index 4379, the last of the triple-indirect range, resolved through the
\* last entries of blocks 25, 29 and 30
C24_Witness ==
  /\ last.op = "lookupBlockId" /\ last.arg = 4379 /\ last.err = ""
  /\ last.ret = 3016
  /\ IdAt(25, 15) = 29 /\ IdAt(29, 15) = 30

----------------------------------------------------------------------------
(* The blocks an inode uses *)

\* _Inode.getUsedBlocks on the inode of f
DoGetUsedBlocks ==
  /\ steps < MaxTreeSteps
  /\ \E ids \in {GetUsedBlocks(image, files["/f"].inode)} :
       Commit([w |-> World, err |-> ""], "getUsedBlocks", 0, Len(ids))
  /\ UNCHANGED <<files, clock>>

NextUsed == Tick \/ DoLookupBlockId \/ DoGetUsedBlocks

SpecUsed == InitTree /\ [][NextUsed]_vars

\* the ids under the list block bid in logical order, the block itself first,
\* up to the first zero at any level; level 0 is a list of data blocks
DataIdsBeforeZero(bid) ==
  [i \in 1 .. SetMin({k \in 0 .. (numIdsPerBlock - 1) : IdAt(bid, k) = 0} \cup {numIdsPerBlock})
     |-> IdAt(bid, i - 1)]

RECURSIVE IdsBeforeZero(_, _, _)
IdsBeforeZero(bid, k, level) ==
  IF level = 0
  THEN [ids |-> DataIdsBeforeZero(bid), done |-> Len(DataIdsBeforeZero(bid)) < numIdsPerBlock]
  ELSE IF k >= numIdsPerBlock THEN [ids |-> <<>>, done |-> FALSE]
  ELSE IF IdAt(bid, k) = 0 THEN [ids |-> <<>>, done |-> TRUE]
  ELSE LET sub == IdsBeforeZero(IdAt(bid, k), 0, level - 1)
           rest == IdsBeforeZero(bid, k + 1, level)
       IN IF sub.done THEN [ids |-> <<IdAt(bid, k)>> \o sub.ids, done |-> TRUE]
          ELSE [ids |-> <<IdAt(bid, k)>> \o sub.ids \o rest.ids, done |-> rest.done]

\* the ids of the whole tree of a block array before its first zero: the
\* direct ids, then each of blocks[12], blocks[13], blocks[14] with its tree
RECURSIVE TreeBeforeZero(_, _)
TreeBeforeZero(blocks, k) ==
  IF k > 14 \/ blocks[k] = 0 THEN <<>>
  ELSE IF k < 12
    THEN IF \E j \in k .. 11 : blocks[j] = 0
         THEN [i \in 1 .. (SetMin({j \in k .. 11 : blocks[j] = 0}) - k) |-> blocks[k + i - 1]]
         ELSE [i \in 1 .. (12 - k) |-> blocks[k + i - 1]] \o TreeBeforeZero(blocks, 12)
  ELSE LET sub == IdsBeforeZero(blocks[k], 0, k - 12)
       IN IF sub.done THEN <<blocks[k]>> \o sub.ids
          ELSE <<blocks[k]>> \o sub.ids \o TreeBeforeZero(blocks, k + 1)

Occurrences(list, v) == Cardinality({k \in 1 .. Len(list) : list[k] = v})

\* C25: used_blocks yields the non-zero ids of the inode's block tree that
\* come before the first zero in logical order, data blocks and indirect
\* blocks alike, each as often as the tree names it, and no id that lies
\* after the first zero at any level.
C25_UsedBlocksStopAtFirstZero ==
  last.op = "getUsedBlocks" =>
    \E used \in {UsedBlocksOf("/f")}, tree \in {TreeBeforeZero(files["/f"].inode.blocks, 0)} :
      /\ Len(used) = Len(tree)
      /\ \A v \in Elements(tree) : Occurrences(used, v) = Occurrences(tree, v)

----------------------------------------------------------------------------
(* Directories of two blocks *)

\* a second directory block with one entry or with two
SecondBlocks ==
  {DirEntryBytes(6, blockSize, NameX),
   DirEntryBytes(6, 12, NameX) \o DirEntryBytes(4, blockSize - 12, NameB)}

\* the images where the root directory (inode 2, block 7), the directory a
\* (inode 3, block 8) or both have block 12 as their second block
TwoBlockImages ==
  {[WholeImage EXCEPT !.data = (12 :> second) @@ @,
                      !.inodes = [n \in DOMAIN @ |->
                                    IF n \in dirs
                                    THEN [@[n] EXCEPT !.size = 2 * blockSize,
                                                      !.blocks = BlocksOf(<<@[0], 12>>)]
                                    ELSE @[n]]] :
     second \in SecondBlocks, dirs \in {{2}, {3}, {2, 3}}}

InitTwoBlocks ==
  /\ Mounted(TwoBlockImages)
  /\ files = [h \in {"/"} |-> OpenRootDirectory(Mount(image)).file]

\* Ext2Directory._openEntry on the root directory or on its entry a
DoOpenDirectory ==
  /\ steps < MaxSteps
  /\ \E h \in {"/", "/a"} :
       \E r \in {IF h = "/" THEN OpenRootDirectory(World) ELSE OpenEntry(World, NameA, 3)} :
         /\ Commit([w |-> World, err |-> r.err], "openDirectory", IF h = "/" THEN 2 ELSE 3,
                   IF r.err = "" THEN Len(r.file.entries) ELSE 0)
         /\ files' = IF r.err = "" THEN (h :> r.file) @@ files ELSE files
  /\ UNCHANGED clock

NextTwoBlocks == Tick \/ DoOpenDirectory

SpecTwoBlocks == InitTwoBlocks /\ [][NextTwoBlocks]_vars

\* the offsets of the records of a directory block, following the record
\* lengths from offset 0 to the end of the block
RECURSIVE RecordOffsets(_, _)
RecordOffsets(bid, offset) ==
  IF offset >= blockSize \/ UnLE16(ReadData(image, bid, 0, blockSize), offset + 4) = 0 THEN <<>>
  ELSE <<offset>> \o
       RecordOffsets(bid, offset + UnLE16(ReadData(image, bid, 0, blockSize), offset + 4))

\* the places <<block, offset>> of the records of the blocks, in order
RECURSIVE RecordPlaces(_)
RecordPlaces(bids) ==
  IF bids = <<>> THEN <<>>
  ELSE [k \in 1 .. Len(RecordOffsets(Head(bids), 0)) |->
          <<Head(bids), RecordOffsets(Head(bids), 0)[k]>>] \o RecordPlaces(Tail(bids))

\* C26: the entry list of a directory of two or more blocks, each holding
\* entries, has the entries of all its blocks, in the order of the blocks and
\* within a block in the order on the disk.
C26_EntryListSpansBlocks ==
  (last.op = "openDirectory" /\ last.err = "") =>
    \E dir \in {files[IF last.arg = 2 THEN "/" ELSE "/a"]} :
      dir.inode.blocks[1] # 0 =>
        [k \in 1 .. Len(dir.entries) |-> <<dir.entries[k].bid, dir.entries[k].offset>>]
          = RecordPlaces(<<dir.inode.blocks[0], dir.inode.blocks[1]>>)

----------------------------------------------------------------------------
(* Where append places the new entry *)

\* the size of a record with the name: 8 bytes and the name, in whole words
NaturalSize(name) == ((8 + Len(name) + 3) \div 4) * 4

\* the offset just after the last entry of the directory at its natural size
CandidateOffset(dir) ==
  dir.entries[Len(dir.entries)].offset + NaturalSize(dir.entries[Len(dir.entries)].name)

\* C27: append places the entry in the directory's last block, just after the
\* last entry at its natural size, whenever that offset plus the size of the
\* new entry is at most the block size; only otherwise does it allocate a
\* block, assign it to the directory's inode and grow the size by a block.
C27_AppendUsesRoomInLastBlock ==
  (/\ last.op = "append" /\ prev.op = "none"
   /\ Len(last.arg.name) \in 1 .. 255
   /\ last.pre.sb.numFreeBlocks > 0)
  => \E before \in {last.pre.files[last.arg.h]}, after \in {files[last.arg.h]} :
       IF CandidateOffset(before) + NaturalSize(last.arg.name) <= blockSize
       THEN /\ after.inode.blocks = before.inode.blocks
            /\ after.inode.size = before.inode.size
            /\ sb.numFreeBlocks = last.pre.sb.numFreeBlocks
       ELSE /\ after.inode.blocks # before.inode.blocks
            /\ after.inode.size = before.inode.size + blockSize

----------------------------------------------------------------------------
(* The order of the updates of a mutation that allocates a block:
   _allocateBlock line by line, then the caller's assignNextBlockId *)

\* the file whose inode gets the block, and whether the caller asks for zeros:
\* Ext2RegularFile.write on f, _EntryList.append on the root and on a
Mutations == {[h |-> "/f", zeros |-> FALSE], [h |-> "/", zeros |-> TRUE], [h |-> "/a", zeros |-> TRUE]}

\* one update of the mutation: the new world, files and position
Advance(w, newFiles, op, arg, ret, err) ==
  /\ image' = w.image
  /\ sb' = w.sb
  /\ bgdt' = w.bgdt
  /\ files' = newFiles
  /\ steps' = steps + 1
  /\ last' = [op |-> op, arg |-> arg, ret |-> ret, err |-> err, pre |-> Snapshot]
  /\ prev' = last
  /\ UNCHANGED <<isMounted, isValid, clock>>

GroupOfBlock(bid) == (bid - firstDataBlockId) \div numBlocksPerGroup

IndexInGroup(bid) == (bid - firstDataBlockId) % numBlocksPerGroup

\* device.write of the bitmap byte with the bit of the block found
OrderWriteBitmap ==
  /\ last.op = "none"
  /\ \E m \in Mutations :
       \E a \in {AllocateBlock(World, m.zeros, clock)} :
         /\ a.err = ""
         /\ Advance([World EXCEPT !.image =
                       DeviceWrite(@, <<"blockBitmap", GroupOfBlock(a.ret), IndexInGroup(a.ret) \div 8>>,
                                   <<OrBit(image.blockBitmap[GroupOfBlock(a.ret)][(IndexInGroup(a.ret) \div 8) + 1],
                                           IndexInGroup(a.ret) % 8)>>)],
                     files, "wroteBitmap", [h |-> m.h, zeros |-> m.zeros, start |-> World], a.ret, "")

\* self._superblock.numFreeBlocks -= 1
OrderLowerSuperblock ==
  /\ last.op = "wroteBitmap"
  /\ Advance(SetSbNumFreeBlocks(World, sb.numFreeBlocks - 1), files,
             "loweredSuperblock", last.arg, last.ret, "")

\* bgdtEntry.numFreeBlocks -= 1
OrderLowerGroup ==
  /\ last.op = "loweredSuperblock"
  /\ \E r \in {SetBgdtNumFreeBlocks(World, GroupOfBlock(last.ret),
                                     bgdt[GroupOfBlock(last.ret)].numFreeBlocks - 1, clock)} :
       Advance(r.w, files, "loweredGroup", last.arg, last.ret, r.err)

\* if zeros: device.write of a 0 for every byte of the block
OrderZero ==
  /\ last.op = "loweredGroup" /\ last.err = "" /\ last.arg.zeros
  /\ Advance([World EXCEPT !.image = DeviceWrite(@, <<"data", last.ret, 0>>, Zeros(blockSize))],
             files, "zeroed", last.arg, last.ret, "")

\* self._superblock.timeLastWrite = int(time())
OrderStamp ==
  /\ \/ last.op = "zeroed"
     \/ last.op = "loweredGroup" /\ last.err = "" /\ ~last.arg.zeros
  /\ Advance(SetSbTimeLastWrite(World, clock), files, "stamped", last.arg, last.ret, "")

\* the caller's inode.assignNextBlockId(bid)
OrderAssign ==
  /\ last.op = "stamped"
  /\ \E r \in {AssignNextBlockId(World, files[last.arg.h].inode, last.ret, clock)} :
       Advance(r.w, [files EXCEPT ![last.arg.h].inode = r.inode], "assigned",
               last.arg, last.ret, r.err)

NextOrder ==
  Tick \/ OrderWriteBitmap \/ OrderLowerSuperblock \/ OrderLowerGroup \/ OrderZero
    \/ OrderStamp \/ OrderAssign

SpecOrder == InitFiles /\ [][NextOrder]_vars

\* every id in the block array of the inode of an open file has its bit set
\* in the block bitmap on the device
RecordedBlocksAreMarked ==
  \A h \in DOMAIN files : \A k \in 0 .. 14 :
    files[h].inode.blocks[k] # 0 => BlockBit(image.blockBitmap, files[h].inode.blocks[k]) = 1

\* C28: within a mutation that allocates a block, after every prefix of its
\* updates each block id recorded in an inode's block array has its bitmap
\* bit set, and nothing is written by the allocation after the superblock's
\* and the group's free-block counters have been lowered.
C28_BitmapFirstCountersLast ==
  /\ RecordedBlocksAreMarked
  /\ last.op = "zeroed" =>
       /\ last.pre.sb.numFreeBlocks = last.arg.start.sb.numFreeBlocks
       /\ last.pre.bgdt = last.arg.start.bgdt

----------------------------------------------------------------------------
(* Symbolic links in the integrity check *)

ModeLnk == 41471        \* 0120777

\* the inode of f as a symbolic link: a target of 4 or 8 bytes held in the
\* block array itself ("abcd", "efgh" as little-endian words), or a target of
\* 70 bytes in blocks 11 and 12
SymlinkInodes ==
  {[mode |-> mode, size |-> shape.size, numLinks |-> 1, blocks |-> BlocksOf(shape.blocks)] :
     mode \in {ModeLnk, 41380},
     shape \in {[size |-> 4, blocks |-> <<1684234849>>],
                [size |-> 8, blocks |-> <<1684234849, 1751606885>>],
                [size |-> 70, blocks |-> <<11, 12>>]}}

\* blocks 1..10 marked, then also 11 and 12, or all of group 0
SymlinkImages ==
  {MkImageWith([g \in Groups |-> IF g = 0 THEN <<255, b0>> ELSE <<63, 0>>], ib, FullSize,
               [InodeTable EXCEPT ![4] = inode]) :
     b0 \in {3, 15, 255}, ib \in InitInodeBitmaps, inode \in SymlinkInodes}

InitSymlinks ==
  /\ Mounted(SymlinkImages)
  /\ files = [h \in {"/"} |-> OpenRootDirectory(Mount(image)).file]

NextSymlinks == Tick \/ DoCheckIntegrity

SpecSymlinks == InitSymlinks /\ [][NextSymlinks]_vars

\* the messages of the check about references to the block
BlockMessages(messages, bid) ==
  {m \in messages :
     /\ m.n = bid
     /\ m.text \in {"referencing a block that is not marked as used",
                    "Block id is being referenced by both"}}

\* C29: in check_integrity a symbolic link whose target is at most 60 bytes
\* long, held in the block array of its inode, has no entry of that array
\* checked as a block reference, so no message about an unmarked or doubly
\* referenced block names one; a symbolic link of more than 60 bytes has its
\* blocks checked like those of any other file.
C29_ShortSymlinkBlocksNotChecked ==
  (last.op = "checkIntegrity" /\ last.err = "") =>
    \E link \in {image.inodes[4]}, r \in {CheckIntegrity(World, files["/"])} :
      (link.mode \div 4096) % 16 = 10 =>
        \A k \in 0 .. 14 :
          link.blocks[k] # 0 =>
            IF link.size <= 60
            THEN BlockMessages(r.messages, link.blocks[k]) = {}
            ELSE BlockBit(image.blockBitmap, link.blocks[k]) = 0
                   => BlockMessages(r.messages, link.blocks[k]) # {}

----------------------------------------------------------------------------
(* Mutations that fail after they have allocated *)

\* f holds 12 blocks, 11..16 of group 0 and 23..28 of group 1, all marked;
\* group 1 has 4 free blocks or none, group 0 has 2 free inodes or none
TwelveBlockImages ==
  {MkImageWith([g \in Groups |-> IF g = 0 THEN <<255, 255>> ELSE <<255, b1>>], ib, FullSize,
               InodeTableWith(12 * blockSize, <<11, 12, 13, 14, 15, 16, 23, 24, 25, 26, 27, 28>>)) :
     b1 \in {15, 255}, ib \in InitInodeBitmaps}

InitTwelveBlocks ==
  /\ Mounted(TwelveBlockImages)
  /\ files = OpenAll(Mount(image))

\* a name of 256 bytes
LongName == [k \in 1 .. 256 |-> 120]

\* Ext2Directory.makeDirectory with the long name
DoMakeDirectoryLongName ==
  /\ steps < MaxFileSteps
  /\ \E h \in {"/", "/a"} :
       \E r \in {MakeDirectory(World, files[h], LongName, clock)} :
         CommitFile(r, h, r.dir, "makeDirectory", [h |-> h, name |-> LongName], 0)
  /\ UNCHANGED clock

NextTwelveBlocks == Tick \/ DoWrite \/ DoMakeDirectoryLongName

SpecTwelveBlocks == InitTwelveBlocks /\ [][NextTwelveBlocks]_vars

\* C30: when a write that needs a 13th block fails, or make_directory fails
\* on a name of more than 255 bytes, the block bitmaps, the inode bitmaps and
\* all the free counts are what they were before the call.
C30_FailedMutationKeepsAllocation ==
  (\/ last.op = "write" /\ last.err = "Not implemented."
   \/ last.op = "makeDirectory" /\ Len(last.arg.name) > 255 /\ last.err # "")
  => /\ image.blockBitmap = last.pre.image.blockBitmap
     /\ image.inodeBitmap = last.pre.image.inodeBitmap
     /\ sb.numFreeBlocks = last.pre.sb.numFreeBlocks
     /\ sb.numFreeInodes = last.pre.sb.numFreeInodes
     /\ \A g \in Groups :
          /\ bgdt[g].numFreeBlocks = last.pre.bgdt[g].numFreeBlocks
          /\ bgdt[g].numFreeInodes = last.pre.bgdt[g].numFreeInodes

====
